---- MODULE Spec2Model ----
(***************************************************************************)
(* SiteWatch: the Monitor core (worker.Monitor), the endpoint Store        *)
(* (models.Database) and the admin handlers (handler.HealthHandler).       *)
(*                                                                         *)
(* Time is counted in abstract clock units.  Only the order of the         *)
(* program's durations matters here: the default check interval (30s in    *)
(* the source) is one unit and the TLS re-check period (24h, one day) is   *)
(* two; the certificate warning window is one day.                         *)
(*                                                                         *)
(* An EndpointState lives in `heap` under a reference; the state table     *)
(* `states` maps an id to a reference, as the Go map holds pointers.  A    *)
(* probe task keeps the pointer it was started with, so it can outlive     *)
(* the table entry.                                                        *)
(*                                                                         *)
(* The specifications share the variables and the actions:                 *)
(*   Spec          probes and admin requests that come one at a time       *)
(*   ScenarioSpec  recorded sequences of probe outcomes, fixed thresholds  *)
(*   TimeSpec      every check interval, clock moving inside a handler     *)
(*   AdminSpec     admin requests running in parallel                      *)
(*   ReplySpec     admin requests whose Database calls may fail            *)
(*   LifeSpec      ticks and probes until Stop; LifeFairSpec adds fairness *)
(*   HistorySpec   the history bucket alone, time counted in hours         *)
(*   StoreSpec     puts and gets of the endpoints bucket, all fields       *)
(*   IdSpec        the id generator on short names and URLs                *)
(*   SummarySpec   the SSL-summary task alone, time counted in minutes     *)
(*   ConflictSpec  parallel adds of two endpoints of one name              *)
(*   PasskeySpec   enable-health requests with right and wrong passkeys    *)
(*   StatusSpec    status requests beside probes                           *)
(*   ImportSpec    the config import run again on a changed Store          *)
(*   CertSpec      the certificate expiry computation, time in hours       *)
(*   PairSpec      ticks and probes of two endpoints                       *)
(*   FlagSpec      enable, disable, suppress, unsuppress in parallel       *)
(*   RecordSpec    probe outcomes with their history records               *)
(*   LockSpec      every goroutine stepwise, with the three locks          *)
(*                                                                         *)
(* Not modelled: ResponseTime, LastStatusChange and Headers.  A stored     *)
(* endpoint carries no Name and URL; NameOf and URLOf give those of the    *)
(* endpoint an id stands for in ConflictSpec, and everywhere else the two  *)
(* ids stand for endpoints of different names and URLs.  Method, Timeout,  *)
(* ExpectedStatus, CreatedAt and UpdatedAt are written by the Store and    *)
(* read by nothing else, so only StoreSpec carries them.                   *)
(***************************************************************************)
EXTENDS Integers, Sequences, FiniteSets, TLC

\* ---------------------------------------------------------------- bounds
MaxTime == 2      \* the clock stops advancing here
MaxCount == 2     \* cap of the two consecutive-outcome counters
NumRefs == 2      \* EndpointState objects alive at once
MaxOutcomes == 7  \* length of a recorded outcome sequence (scenario runs)
MaxRecords == 3   \* records in the history bucket (HistorySpec)
MaxLen == 2       \* length of a name and of a URL given to the id generator (IdSpec)
MaxFires == 2     \* firings of the SSL-summary timer in one run (SummarySpec)
MaxImports == 2   \* runs of the config import (ImportSpec)
MaxCertDays == 32 \* days from now to the latest notAfter of a certificate (CertSpec)
CleanupTime == 100 \* the hour at which HistorySpec's cleanup pass runs

\* ------------------------------------------------------ program constants
DefaultCheckInterval == 1
SSLCheckPeriod == 2
DefaultFailureThreshold == 3
DefaultSuccessThreshold == 2
SSLExpiryWarningDays == 1
ZeroTime == -1    \* time.Time{} (IsZero); every clock reading is >= 0
DataRetentionDays == 3
DefaultMethod == "GET"
DefaultTimeout == 10      \* seconds; a timeout is only stored, never added to a time
DefaultExpectedStatus == 200
HoursPerDay == 24 \* HistorySpec counts time in hours
MinutesPerHour == 60 \* SummarySpec counts time in minutes
DefaultSummaryHour == 9
DefaultSummaryMinute == 30
DefaultWarningDays == 30   \* LoadConfig's ssl_expiry_warning_days for a setting of 0

Ids == {"e1", "e2"}
Refs == 1..NumRefs
NoRef == 0
Threads == {1, 2}

StatusHealthy == "healthy"
StatusUnhealthy == "unhealthy"
StatusUnknown == "unknown"

NoRec == [none |-> TRUE]
NoObj == [none |-> TRUE]

VARIABLES
  now,      \* the wall clock
  phase,    \* "new" (constructed), "sweep" (Start's initial check), "run"
  store,    \* endpoints bucket: id -> StoredEndpoint or NoRec
  states,   \* Monitor.states: id -> reference or NoRef
  heap,     \* reference -> EndpointState or NoObj
  probes,   \* reference -> position of the probe task running on it
  admin,    \* admin request thread -> its position and locals
  last,     \* history: what the last step did (operation, previous status, alert)
  refAlert, \* history: reference -> kind of the last alert of that state
  refSilent, \* history: reference -> an edge was crossed silently since that alert
  trace,    \* history: recorded outcome sequence of a scenario run
  life,     \* Stop and the goroutines of Monitor.wg: the ticker and the SSL summary
  bucket    \* history bucket: the HealthCheckRecords stored, one per key

vars == <<now, phase, store, states, heap, probes, admin, last, refAlert, refSilent, trace,
          life, bucket>>

\* ------------------------------------------------------------- helpers
Min(a, b) == IF a <= b THEN a ELSE b

\* Go's integer division truncates toward zero.
GoDiv(a, b) == IF a >= 0 THEN a \div b ELSE -((-a) \div b)

\* The readings a second time.Now() of one handler may return, the clock having
\* advanced by one of `skews` since the first.
LaterReads(t, skews) == {Min(t + d, MaxTime) : d \in skews}

IdleThread == [pc |-> "idle", op |-> "none", id |-> "", rec |-> NoRec]

\* What a step did: the operation, the id and reference it acted on, the status
\* before it, the state it left, the alert it handed to the alerter, and the time
\* between its first two clock readings.
Step(op, id, r, prev, after, alert, skew) ==
  [op |-> op, id |-> id, ref |-> r, prev |-> prev, after |-> after, alert |-> alert,
   skew |-> skew]

NoStep == Step("other", "", NoRef, StatusUnknown, NoObj, "none", 0)

\* The goroutines Start leaves behind, before Stop: the shutdown context is not
\* cancelled, the ticker goroutine and the SSL summary scheduler wait in their select.
\* `buffered` is a tick left in ticker.C when the ticker is stopped.
Started ==
  [cancelled |-> FALSE, buffered |-> FALSE, tick |-> "running", summary |-> "waiting",
   stop |-> "no"]

AllIdle == \A r \in Refs : probes[r] = "idle"

\* Objects neither in the table nor held by a probe task are collected.
Collect(h, st, pr) ==
  [r \in Refs |-> IF (\E i \in Ids : st[i] = r) \/ pr[r] # "idle" THEN h[r] ELSE NoObj]


\* ------------------------------------------------------------ the Store
\* Database.SaveEndpoint: fills defaults into the caller's record, then puts it.
WithDefaults(e) ==
  [e EXCEPT
     !.FailureThreshold = IF @ = 0 THEN DefaultFailureThreshold ELSE @,
     !.SuccessThreshold = IF @ = 0 THEN DefaultSuccessThreshold ELSE @,
     !.CheckInterval = IF @ = 0 THEN DefaultCheckInterval ELSE @]

\* Variant of Saved: created_at is set on every put.
SavedFresh(e, t) ==
  [WithDefaults(e) EXCEPT
     !.CreatedAt = t,
     !.UpdatedAt = t,
     !.Method = IF @ = "" THEN DefaultMethod ELSE @,
     !.Timeout = IF @ = 0 THEN DefaultTimeout ELSE @,
     !.ExpectedStatus = IF @ = 0 THEN DefaultExpectedStatus ELSE @]

\* Database.SaveEndpoint at clock reading t on a record with all its stored fields:
\* the record it marshals.
Saved(e, t) ==
  [WithDefaults(e) EXCEPT
     !.CreatedAt = IF @ = ZeroTime THEN t ELSE @,
     !.UpdatedAt = t,
     !.Method = IF @ = "" THEN DefaultMethod ELSE @,
     !.Timeout = IF @ = 0 THEN DefaultTimeout ELSE @,
     !.ExpectedStatus = IF @ = 0 THEN DefaultExpectedStatus ELSE @]

\* json.Marshal of a StoredEndpoint: an object under the struct's json keys, a
\* duration as a number, a time as RFC 3339 text.
Marshal(e) ==
  [k \in {"id", "method", "timeout", "check_interval", "expected_status",
          "failure_threshold", "success_threshold", "created_at", "updated_at"} |->
     CASE k = "id" -> e.ID
       [] k = "method" -> e.Method
       [] k = "timeout" -> e.Timeout
       [] k = "check_interval" -> e.CheckInterval
       [] k = "expected_status" -> e.ExpectedStatus
       [] k = "failure_threshold" -> e.FailureThreshold
       [] k = "success_threshold" -> e.SuccessThreshold
       [] k = "created_at" -> [rfc3339 |-> e.CreatedAt]
       [] k = "updated_at" -> [rfc3339 |-> e.UpdatedAt]]

\* json.Unmarshal into a StoredEndpoint.
Unmarshal(data) ==
  [ID |-> data["id"], Method |-> data["method"], Timeout |-> data["timeout"],
   CheckInterval |-> data["check_interval"],
   ExpectedStatus |-> data["expected_status"],
   FailureThreshold |-> data["failure_threshold"],
   SuccessThreshold |-> data["success_threshold"],
   CreatedAt |-> data["created_at"].rfc3339, UpdatedAt |-> data["updated_at"].rfc3339]

\* StoredEndpoint built by HealthHandler.AddEndpoint from the request.
NewStored(mh, ivl, f, s) ==
  [Enabled |-> TRUE, AlertsSuppressed |-> FALSE, MonitorHealth |-> mh,
   CheckInterval |-> IF mh THEN ivl ELSE 0,
   FailureThreshold |-> f, SuccessThreshold |-> s]

\* EndpointState built by AddEndpoint / loadEndpointsFromDB; t1, t2 are the two
\* clock readings.
NewState(id, e, t1, t2) ==
  [ID |-> id, Status |-> StatusUnknown,
   ConsecutiveFailures |-> 0, ConsecutiveSuccesses |-> 0, LastError |-> "",
   Enabled |-> e.Enabled, AlertsSuppressed |-> e.AlertsSuppressed,
   MonitorHealth |-> e.MonitorHealth,
   CheckInterval |-> IF e.CheckInterval = 0 /\ e.MonitorHealth
                       THEN DefaultCheckInterval ELSE e.CheckInterval,
   FailureThreshold |-> e.FailureThreshold, SuccessThreshold |-> e.SuccessThreshold,
   LastCheck |-> t1, NextCheck |-> t2,
   LastSSLCheck |-> ZeroTime, SSLCertExpiry |-> ZeroTime, DaysToExpiry |-> 0,
   SSLExpiringSoon |-> FALSE]

\* ------------------------------------------------------- the history bucket
\* A HealthCheckRecord, as far as the Store reads it.
Record(id, ts) == [EndpointID |-> id, Timestamp |-> ts]

\* The bytes of an id, of ':' and of the digits and sign fmt's %d prints.
IdBytes(id) == IF id = "e1" THEN <<101, 49>> ELSE <<101, 50>>
Colon == 58
Minus == 45
Digit(d) == 48 + d

\* fmt.Sprintf("%d", n): the decimal digits of n, no padding.
RECURSIVE Decimal(_)
Decimal(n) ==
  IF n < 0 THEN <<Minus>> \o Decimal(-n)
  ELSE IF n < 10 THEN <<Digit(n)>>
  ELSE Decimal(n \div 10) \o <<Digit(n % 10)>>

\* SaveHealthCheckRecord's key: fmt.Sprintf("%s:%d", EndpointID, Timestamp.UnixNano()).
HistoryKey(r) == IdBytes(r.EndpointID) \o <<Colon>> \o Decimal(r.Timestamp)

\* bytes.Compare(a, b) < 0, the order of a bolt cursor.
BytesLess(a, b) ==
  \E i \in 1..(Len(a) + 1) :
    /\ \A j \in 1..(i - 1) : j <= Len(b) /\ a[j] = b[j]
    /\ i <= Len(b)
    /\ (i = Len(a) + 1 \/ a[i] < b[i])

HasPrefix(k, prefix) ==
  Len(k) >= Len(prefix) /\ SubSeq(k, 1, Len(prefix)) = prefix

\* The records of set S in the order a cursor visits their keys.
RECURSIVE CursorOrder(_)
CursorOrder(S) ==
  IF S = {} THEN <<>>
  ELSE LET first == CHOOSE r \in S :
                      \A q \in S \ {r} : BytesLess(HistoryKey(r), HistoryKey(q))
       IN <<first>> \o CursorOrder(S \ {first})

Reversed(seq) == [i \in 1..Len(seq) |-> seq[Len(seq) + 1 - i]]

\* Database.GetHealthHistory: the cursor walks the keys that begin with the id and
\* ':', the slice is reversed and cut to the limit.
HealthHistory(b, id, limit) ==
  LET prefix == IdBytes(id) \o <<Colon>>
      records == Reversed(CursorOrder({r \in b : HasPrefix(HistoryKey(r), prefix)}))
  IN IF limit > 0 /\ Len(records) > limit THEN SubSeq(records, 1, limit) ELSE records

\* time.Time.AddDate(0, 0, days) of a local time t: the instant with t's wall clock
\* reading `days` calendar days away.  shift is the zone's UTC offset at t minus its
\* offset at the result (an hour across a daylight-saving change, else 0).
AddDate(t, days, shift) == t + days * HoursPerDay + shift

ZoneShifts == {-1, 0, 1}

\* Variant of CleanupKept: a record exactly at the cutoff is deleted as well.
CleanupKeptAfter(b, t, shift) ==
  {r \in b : r.Timestamp > AddDate(t, -DataRetentionDays, shift)}

\* Database.CleanupOldData at clock reading t: what it leaves in the bucket.
CleanupKept(b, t, shift) ==
  LET cutoff == AddDate(t, -DataRetentionDays, shift)
  IN {r \in b : ~(r.Timestamp < cutoff)}

\* ---------------------------------------------------------- id generation
\* A string is a sequence of one-character strings.
Lower ==
  {"a", "b", "c", "d", "e", "f", "g", "h", "i", "j", "k", "l", "m", "n",
   "o", "p", "q", "r", "s", "t", "u", "v", "w", "x", "y", "z"}
Upper ==
  {"A", "B", "C", "D", "E", "F", "G", "H", "I", "J", "K", "L", "M", "N",
   "O", "P", "Q", "R", "S", "T", "U", "V", "W", "X", "Y", "Z"}
Digits == {"0", "1", "2", "3", "4", "5", "6", "7", "8", "9"}
AlphaNum == Lower \cup Upper \cup Digits
Separators == {" ", "-", "_", "/", ":", "."}

\* GenerateIDWithURL's first loop: letters and digits kept, separators turned into
\* '-', every other character dropped.
RECURSIVE MapChars(_)
MapChars(str) ==
  IF str = <<>> THEN <<>>
  ELSE LET c == Head(str)
           rest == MapChars(Tail(str))
       IN IF c \in AlphaNum THEN <<c>> \o rest
          ELSE IF c \in Separators THEN <<"-">> \o rest
          ELSE rest

\* The second loop: a '-' that follows a '-' is skipped.
RECURSIVE CollapseDashes(_, _)
CollapseDashes(str, prevDash) ==
  IF str = <<>> THEN <<>>
  ELSE IF Head(str) = "-"
         THEN (IF prevDash THEN <<>> ELSE <<"-">>) \o CollapseDashes(Tail(str), TRUE)
         ELSE <<Head(str)>> \o CollapseDashes(Tail(str), FALSE)

\* The third loop: trailing '-' cut off.
RECURSIVE TrimTrailingDash(_)
TrimTrailingDash(str) ==
  IF str # <<>> /\ str[Len(str)] = "-"
    THEN TrimTrailingDash(SubSeq(str, 1, Len(str) - 1))
    ELSE str

\* Variant of GenerateIDWithURL: the trailing '-' stays.
GenerateIDUntrimmed(name, url) ==
  CollapseDashes(MapChars(name \o <<"-">> \o url), FALSE)

\* Variant of GenerateIDWithURL: runs of '-' stay.
GenerateIDUncollapsed(name, url) ==
  TrimTrailingDash(MapChars(name \o <<"-">> \o url))

\* utils.GenerateIDWithURL.
GenerateIDWithURL(name, url) ==
  TrimTrailingDash(CollapseDashes(MapChars(name \o <<"-">> \o url), FALSE))

\* ------------------------------------------------------ SSL-summary timing
\* Time here is the wall clock of the reporting zone in minutes; the zone has a fixed
\* offset, so every day is HoursPerDay hours long.
MinutesPerDay == HoursPerDay * MinutesPerHour

DigitValue ==
  [c \in Digits |->
     CASE c = "0" -> 0 [] c = "1" -> 1 [] c = "2" -> 2 [] c = "3" -> 3 [] c = "4" -> 4
       [] c = "5" -> 5 [] c = "6" -> 6 [] c = "7" -> 7 [] c = "8" -> 8 [] c = "9" -> 9]

\* How many digits a string begins with.
LeadingDigits(str) ==
  LET ks == {k \in 0..Len(str) : \A i \in 1..k : str[i] \in Digits}
  IN CHOOSE k \in ks : \A j \in ks : j <= k

RECURSIVE Atoi(_)
Atoi(ds) ==
  IF ds = <<>> THEN 0
  ELSE 10 * Atoi(SubSeq(ds, 1, Len(ds) - 1)) + DigitValue[ds[Len(ds)]]

\* fmt.Sscanf(str, "%d:%d", &hour, &minute) on an unsigned string: a number, a
\* colon, a number; what follows the second number is not read.
Sscanf(str) ==
  LET k1 == LeadingDigits(str)
      rest == SubSeq(str, k1 + 2, Len(str))
      k2 == LeadingDigits(rest)
  IN IF k1 = 0 \/ Len(str) = k1 \/ str[k1 + 1] # ":" \/ k2 = 0
       THEN [err |-> TRUE, hour |-> 0, minute |-> 0]
       ELSE [err |-> FALSE, hour |-> Atoi(SubSeq(str, 1, k1)),
             minute |-> Atoi(SubSeq(rest, 1, k2))]

\* The hour and minute the scheduler works with: 09:30 if the setting does not parse.
SummaryClock(cfg) ==
  IF Sscanf(cfg).err
    THEN [hour |-> DefaultSummaryHour, minute |-> DefaultSummaryMinute]
    ELSE [hour |-> Sscanf(cfg).hour, minute |-> Sscanf(cfg).minute]

\* time.Date(now.Year(), now.Month(), now.Day(), hour, minute, 0, 0, loc).
TimeDate(t, hour, minute) ==
  (t \div MinutesPerDay) * MinutesPerDay + hour * MinutesPerHour + minute

\* Variant of NextSummary: tomorrow unless the time of day is still ahead.
NextSummaryNotBefore(t, hour, minute) ==
  IF ~(t < TimeDate(t, hour, minute))
    THEN TimeDate(t, hour, minute) + MinutesPerDay
    ELSE TimeDate(t, hour, minute)

\* The scheduler's next fire time: today's, or tomorrow's if today's has passed.
NextSummary(t, hour, minute) ==
  IF t > TimeDate(t, hour, minute)
    THEN TimeDate(t, hour, minute) + MinutesPerDay
    ELSE TimeDate(t, hour, minute)

\* ------------------------------------------------------------ TLS probe
\* The URL of an id is fixed (the id is derived from name and URL).
HttpsIds == {"e2"}

CertNotAfter == 4  \* bound: the notAfter of the certificate a server presents
TLSEnv == {[up |-> FALSE, notAfter |-> ZeroTime], [up |-> TRUE, notAfter |-> CertNotAfter]}

\* The server behaviour under which the TLS probe fails: no connection, a failed
\* handshake or an empty chain.
TLSDown == [up |-> FALSE, notAfter |-> ZeroTime]

\* LoadConfig: a warning window of 0 in the file is replaced by the default.
LoadedWarningDays(configured) ==
  IF configured = 0 THEN DefaultWarningDays ELSE configured

\* The end of worker.CheckSSLCertificate, for a leaf certificate with the given
\* notAfter read at clock reading t: int(duration.Hours() / 24) and the warning
\* test.  `day` is the length of 24h in the units of t.
ExpiryInfo(notAfter, t, warningDays, day) ==
  LET days == GoDiv(notAfter - t, day)
  IN [IsHTTPS |-> TRUE, Expiry |-> notAfter, DaysToExpiry |-> days,
      ExpiringSoon |-> (days <= warningDays /\ days >= 0)]

\* worker.CheckSSLCertificate at clock reading t against server behaviour env.
CheckSSLCertificate(id, t, env) ==
  IF id \notin HttpsIds
    THEN [IsHTTPS |-> FALSE, Expiry |-> ZeroTime, DaysToExpiry |-> 0, ExpiringSoon |-> FALSE]
  ELSE IF ~env.up
    THEN [IsHTTPS |-> TRUE, Expiry |-> ZeroTime, DaysToExpiry |-> 0, ExpiringSoon |-> FALSE]
  ELSE ExpiryInfo(env.notAfter, t, SSLExpiryWarningDays, SSLCheckPeriod)

\* The once-per-day TLS block shared by checkSSLOnly and handleCheckSuccess.
SSLBlock(o, t, env) ==
  LET shouldCheckSSL == o.LastSSLCheck = ZeroTime \/ t - o.LastSSLCheck >= SSLCheckPeriod
      sslInfo == CheckSSLCertificate(o.ID, t, env)
  IN IF shouldCheckSSL /\ sslInfo.IsHTTPS
       THEN [o EXCEPT !.SSLCertExpiry = sslInfo.Expiry,
                      !.DaysToExpiry = sslInfo.DaysToExpiry,
                      !.SSLExpiringSoon = sslInfo.ExpiringSoon,
                      !.LastSSLCheck = t]
       ELSE o

\* ------------------------------------------------------ handler variants
\* Faulty variants of the handlers below.  A property that is meant to depend on a
\* handler must fail when the handler is replaced by its variant.

\* Counts one success or one failure on state o, as the handlers do.
CountedSuccess(o, t1, t2) ==
  [o EXCEPT !.LastCheck = t1, !.NextCheck = t2 + o.CheckInterval,
            !.ConsecutiveFailures = 0, !.ConsecutiveSuccesses = @ + 1, !.LastError = ""]

CountedFailure(o, t1, t2) ==
  [o EXCEPT !.LastCheck = t1, !.NextCheck = t2 + o.CheckInterval,
            !.ConsecutiveSuccesses = 0, !.ConsecutiveFailures = @ + 1, !.LastError = "err"]

RecoveryAlert(prev, o) ==
  IF prev = StatusUnhealthy /\ o.Status = StatusHealthy /\ ~o.AlertsSuppressed
    THEN "recovery" ELSE "none"

FailureAlert(prev, o) ==
  IF prev # StatusUnhealthy /\ o.Status = StatusUnhealthy /\ ~o.AlertsSuppressed
    THEN "failure" ELSE "none"

\* turns unhealthy one failure late: > instead of >=
FailureResultLate(o, t1, t2) ==
  LET o1 == CountedFailure(o, t1, t2)
      o2 == IF o1.ConsecutiveFailures > o1.FailureThreshold
              THEN [o1 EXCEPT !.Status = StatusUnhealthy] ELSE o1
  IN [state |-> o2, alert |-> FailureAlert(o.Status, o2)]

\* turns unhealthy on the first failure, whatever the threshold
FailureResultEarly(o, t1, t2) ==
  LET o2 == [CountedFailure(o, t1, t2) EXCEPT !.Status = StatusUnhealthy]
  IN [state |-> o2, alert |-> FailureAlert(o.Status, o2)]

\* alerts on every failure of an unhealthy endpoint, not only on the edge
FailureResultRepeat(o, t1, t2) ==
  LET o1 == CountedFailure(o, t1, t2)
      o2 == IF o1.ConsecutiveFailures >= o1.FailureThreshold
              THEN [o1 EXCEPT !.Status = StatusUnhealthy] ELSE o1
  IN [state |-> o2,
      alert |-> IF o2.Status = StatusUnhealthy /\ ~o2.AlertsSuppressed
                  THEN "failure" ELSE "none"]

\* turns healthy on the first success, whatever the threshold
SuccessResultEager(o, t1, t2, env) ==
  LET o3 == SSLBlock([CountedSuccess(o, t1, t2) EXCEPT !.Status = StatusHealthy], t2, env)
  IN [state |-> o3, alert |-> RecoveryAlert(o.Status, o3)]

\* never hands a recovery alert to the alerter
SuccessResultSilent(o, t1, t2, env) ==
  LET o1 == CountedSuccess(o, t1, t2)
      o2 == IF o1.ConsecutiveSuccesses >= o1.SuccessThreshold
              THEN [o1 EXCEPT !.Status = StatusHealthy] ELSE o1
  IN [state |-> SSLBlock(o2, t2, env), alert |-> "none"]

\* keeps the failure counter
SuccessResultKeepFailures(o, t1, t2, env) ==
  LET o1 == [CountedSuccess(o, t1, t2) EXCEPT !.ConsecutiveFailures = o.ConsecutiveFailures]
      o2 == IF o1.ConsecutiveSuccesses >= o1.SuccessThreshold
              THEN [o1 EXCEPT !.Status = StatusHealthy] ELSE o1
  IN [state |-> SSLBlock(o2, t2, env), alert |-> RecoveryAlert(o.Status, o2)]

\* alerts although alerts are suppressed
SuccessResultLoud(o, t1, t2, env) ==
  LET o1 == CountedSuccess(o, t1, t2)
      o2 == IF o1.ConsecutiveSuccesses >= o1.SuccessThreshold
              THEN [o1 EXCEPT !.Status = StatusHealthy] ELSE o1
  IN [state |-> SSLBlock(o2, t2, env),
      alert |-> IF o.Status = StatusUnhealthy /\ o2.Status = StatusHealthy
                  THEN "recovery" ELSE "none"]

\* runs the once-per-day TLS block after a failure too
FailureResultWithTLS(o, t1, t2) ==
  LET o1 == CountedFailure(o, t1, t2)
      o2 == IF o1.ConsecutiveFailures >= o1.FailureThreshold
              THEN [o1 EXCEPT !.Status = StatusUnhealthy] ELSE o1
  IN [state |-> SSLBlock(o2, t2, TLSDown), alert |-> FailureAlert(o.Status, o2)]

\* makes a TLS connection on every TLS-only check, whenever the last one was
SSLOnlyResultAlways(o, t, env) ==
  [SSLBlock([o EXCEPT !.LastSSLCheck = ZeroTime], t, env)
     EXCEPT !.LastCheck = t, !.NextCheck = t + SSLCheckPeriod]

\* schedules the next TLS-only check one check interval ahead
SSLOnlyResultInterval(o, t, env) ==
  [SSLBlock(o, t, env) EXCEPT !.LastCheck = t, !.NextCheck = t + o.CheckInterval]

\* ------------------------------------------------- hysteresis state machine
\* Monitor.handleCheckSuccess on state o; t1, t2 are its first two clock readings.
\* Yields the new state and the alert it hands to the alerter.
SuccessResult(o, t1, t2, env) ==
  LET o1 == [o EXCEPT !.LastCheck = t1,
                      !.NextCheck = t2 + o.CheckInterval,
                      !.ConsecutiveFailures = 0,
                      !.ConsecutiveSuccesses = @ + 1,
                      !.LastError = ""]
      previousStatus == o.Status
      o2 == IF o1.ConsecutiveSuccesses >= o1.SuccessThreshold
              THEN [o1 EXCEPT !.Status = StatusHealthy] ELSE o1
      o3 == SSLBlock(o2, t2, env)
  IN [state |-> o3,
      alert |-> IF previousStatus = StatusUnhealthy /\ o3.Status = StatusHealthy
                   /\ ~o3.AlertsSuppressed
                  THEN "recovery" ELSE "none"]

\* Monitor.handleCheckFailure on state o.
FailureResult(o, t1, t2) ==
  LET o1 == [o EXCEPT !.LastCheck = t1,
                      !.NextCheck = t2 + o.CheckInterval,
                      !.ConsecutiveSuccesses = 0,
                      !.ConsecutiveFailures = @ + 1,
                      !.LastError = "err"]
      previousStatus == o.Status
      o2 == IF o1.ConsecutiveFailures >= o1.FailureThreshold
              THEN [o1 EXCEPT !.Status = StatusUnhealthy] ELSE o1
  IN [state |-> o2,
      alert |-> IF previousStatus # StatusUnhealthy /\ o2.Status = StatusUnhealthy
                   /\ ~o2.AlertsSuppressed
                  THEN "failure" ELSE "none"]

\* Monitor.checkSSLOnly on state o at clock reading t.
SSLOnlyResult(o, t, env) ==
  [SSLBlock(o, t, env) EXCEPT !.LastCheck = t, !.NextCheck = t + SSLCheckPeriod]

\* ---------------------------------------------------------------- Init
\* A StoredEndpoint left in the bucket by an earlier run.
Preloaded == {WithDefaults(NewStored(TRUE, DefaultCheckInterval, 0, 0))}

\* The reference loadEndpointsFromDB's allocation for an id gets.
InitRef(i) == IF i = "e1" THEN 1 ELSE 2

\* NewMonitor: loadEndpointsFromDB builds one state per stored endpoint.  ids are
\* the endpoints that may be stored, recs what may be stored for each.
InitWith(ids, recs) ==
  /\ now = 0
  /\ phase = "new"
  /\ store \in [Ids -> recs \cup {NoRec}]
  /\ \A i \in Ids \ ids : store[i] = NoRec
  /\ states = [i \in Ids |-> IF store[i] = NoRec THEN NoRef ELSE InitRef(i)]
  /\ heap = [r \in Refs |-> IF \E i \in Ids : states[i] = r
                              THEN LET i == CHOOSE j \in Ids : states[j] = r
                                   IN NewState(i, store[i], now, now)
                              ELSE NoObj]
  /\ probes = [r \in Refs |-> "idle"]
  /\ admin = [t \in Threads |-> IdleThread]
  /\ last = NoStep
  /\ refAlert = [r \in Refs |-> "none"]
  /\ refSilent = [r \in Refs |-> FALSE]
  /\ trace = <<>>
  /\ life = Started
  /\ bucket = {}

Init == InitWith({"e1"}, Preloaded)

InTable(r) == \E i \in Ids : states[i] = r

\* ------------------------------------------------------------- histories
\* refAlert follows the alerts the handlers hand to the alerter, per state from its
\* creation on.  refSilent tells that the state has since crossed an edge into or
\* out of unhealthy without an alert (alerts were suppressed).
CrossedEdge(step) ==
  (step.prev = StatusUnhealthy) # (step.after.Status = StatusUnhealthy)

TrackAlerts ==
  /\ refAlert' =
       [r \in Refs |->
          IF heap'[r] = NoObj \/ (last'.op = "add" /\ last'.ref = r) THEN "none"
          ELSE IF last'.ref = r /\ last'.alert # "none" THEN last'.alert
          ELSE refAlert[r]]
  /\ refSilent' =
       [r \in Refs |->
          IF heap'[r] = NoObj \/ (last'.op = "add" /\ last'.ref = r) THEN FALSE
          ELSE IF last'.ref = r /\ last'.op \in {"success", "failure"}
            THEN IF last'.alert # "none" THEN FALSE
                 ELSE IF CrossedEdge(last') THEN TRUE ELSE refSilent[r]
          ELSE refSilent[r]]

\* Every step of the program ends with History; only a scenario run records a trace,
\* only Stop and the goroutines it cancels change `life`, and the history bucket is
\* followed only where its own operations are studied (HistorySpec); elsewhere the
\* record a handler saves is the handler's step (SavesRecord).
History == TrackAlerts /\ UNCHANGED <<trace, life, bucket>>

\* ------------------------------------------------------- Start and ticks
\* Monitor.Start: checkAllEndpoints spawns a probe task for every enabled state.
CheckAllEndpoints ==
  /\ phase = "new"
  /\ phase' = "sweep"
  /\ probes' = [r \in Refs |-> IF InTable(r) /\ heap[r].Enabled THEN "spawned" ELSE "idle"]
  /\ last' = NoStep
  /\ UNCHANGED <<now, store, states, heap, admin>>
  /\ History

\* checkAllEndpoints' wg.Wait() returns; Start starts the ticker goroutine and returns.
StartReturns ==
  /\ phase = "sweep"
  /\ AllIdle
  /\ phase' = "run"
  /\ last' = NoStep
  /\ UNCHANGED <<now, store, states, heap, probes, admin>>
  /\ History

Due(r) == InTable(r) /\ heap[r].Enabled /\ ~(now < heap[r].NextCheck)

\* Variant of CheckDueEndpoints: the tick does not wait for the tasks it spawned, so
\* the next tick can find tasks running.
CheckDueEndpointsNoWait ==
  /\ phase = "run"
  /\ \E r \in Refs : Due(r) /\ probes[r] = "idle"
  /\ probes' = [r \in Refs |-> IF Due(r) /\ probes[r] = "idle" THEN "spawned"
                                ELSE probes[r]]
  /\ last' = NoStep
  /\ UNCHANGED <<now, phase, store, states, heap, admin>>
  /\ History

\* Monitor.checkDueEndpoints on a tick.  The ticker goroutine waits in wg.Wait()
\* for the tasks of the previous tick, so a tick finds no task running.
CheckDueEndpoints ==
  /\ phase = "run"
  /\ AllIdle
  /\ \E r \in Refs : Due(r)
  /\ probes' = [r \in Refs |-> IF Due(r) THEN "spawned" ELSE "idle"]
  /\ last' = NoStep
  /\ UNCHANGED <<now, phase, store, states, heap, admin>>
  /\ History

AdvanceClock ==
  /\ now < MaxTime
  /\ now' = now + 1
  /\ last' = NoStep
  /\ UNCHANGED <<phase, store, states, heap, probes, admin>>
  /\ History

\* ------------------------------------------------------------ probe tasks
\* Monitor.checkEndpoint up to the HTTP request: reads MonitorHealth under RLock.
CheckEndpoint(r) ==
  /\ probes[r] = "spawned"
  /\ probes' = [probes EXCEPT ![r] = IF heap[r].MonitorHealth THEN "http" ELSE "ssl"]
  /\ last' = NoStep
  /\ UNCHANGED <<now, phase, store, states, heap, admin>>
  /\ History

\* The probe task on r commits state o and ends: its pointer is dropped.
Finish(r, o) ==
  LET pr == [probes EXCEPT ![r] = "idle"]
  IN /\ probes' = pr
     /\ heap' = Collect([heap EXCEPT ![r] = o], states, pr)

CheckSSLOnly(r) ==
  /\ probes[r] = "ssl"
  /\ \E env \in TLSEnv :
       LET o == SSLOnlyResult(heap[r], now, env)
       IN /\ Finish(r, o)
          /\ last' = Step("sslonly", o.ID, r, heap[r].Status, o, "none", 0)
  /\ UNCHANGED <<now, phase, store, states, admin>>
  /\ History

HandleCheckSuccess(r, skews) ==
  /\ probes[r] = "http"
  /\ heap[r].ConsecutiveSuccesses < MaxCount
  /\ \E t2 \in LaterReads(now, skews), env \in TLSEnv :
       LET res == SuccessResult(heap[r], now, t2, env)
       IN /\ now' = t2
          /\ Finish(r, res.state)
          /\ last' = Step("success", heap[r].ID, r, heap[r].Status, res.state,
                          res.alert, t2 - now)
  /\ UNCHANGED <<phase, store, states, admin>>
  /\ History

HandleCheckFailure(r, skews) ==
  /\ probes[r] = "http"
  /\ heap[r].ConsecutiveFailures < MaxCount
  /\ \E t2 \in LaterReads(now, skews) :
       LET res == FailureResult(heap[r], now, t2)
       IN /\ now' = t2
          /\ Finish(r, res.state)
          /\ last' = Step("failure", heap[r].ID, r, heap[r].Status, res.state,
                          res.alert, t2 - now)
  /\ UNCHANGED <<phase, store, states, admin>>
  /\ History

\* ------------------------------------------------------- admin operations
FlagOps == {"enable", "disable", "suppress", "unsuppress"}

SetFlag(e, op) ==
  CASE op = "enable" -> [e EXCEPT !.Enabled = TRUE]
    [] op = "disable" -> [e EXCEPT !.Enabled = FALSE]
    [] op = "suppress" -> [e EXCEPT !.AlertsSuppressed = TRUE]
    [] op = "unsuppress" -> [e EXCEPT !.AlertsSuppressed = FALSE]

\* The StoredEndpoint an operation hands to Database.SaveEndpoint, from the copy
\* cur that GetEndpoint returned.  ivl is <<>> for an empty check_interval in the
\* request, else <<d>>; a threshold of the request is taken only if > 0.
\*   Database.EnableEndpoint / DisableEndpoint / SuppressAlerts / UnsuppressAlerts,
\*   HealthHandler.UpdateEndpoint, HealthHandler.EnableHealthMonitoring.
Requested(op, cur, ivl, f, s) ==
  CASE op \in FlagOps -> SetFlag(cur, op)
    [] op = "update" ->
         [cur EXCEPT !.CheckInterval = IF ivl # <<>> THEN ivl[1] ELSE @,
                     !.FailureThreshold = IF f > 0 THEN f ELSE @,
                     !.SuccessThreshold = IF s > 0 THEN s ELSE @]
    [] op = "enable-health" ->
         [cur EXCEPT !.MonitorHealth = TRUE,
                     !.CheckInterval = IF ivl # <<>> THEN ivl[1] ELSE DefaultCheckInterval,
                     !.FailureThreshold = IF f > 0 THEN f ELSE @,
                     !.SuccessThreshold = IF s > 0 THEN s ELSE @]

\* Variant of MemUpdate: an update also makes the endpoint due, as enable-health does.
MemUpdateDue(o, op, e, t) ==
  CASE op \in FlagOps -> SetFlag(o, op)
    [] op = "update" ->
         [o EXCEPT !.FailureThreshold = e.FailureThreshold,
                   !.SuccessThreshold = e.SuccessThreshold,
                   !.CheckInterval = e.CheckInterval,
                   !.NextCheck = t]
    [] op = "enable-health" ->
         [o EXCEPT !.MonitorHealth = TRUE,
                   !.CheckInterval = e.CheckInterval,
                   !.FailureThreshold = e.FailureThreshold,
                   !.SuccessThreshold = e.SuccessThreshold,
                   !.NextCheck = t]

\* What the Monitor's half of an operation writes into the state o it finds: e is
\* the saved endpoint, t the clock reading.
\*   Monitor.EnableEndpoint / DisableEndpoint / SuppressAlerts / UnsuppressAlerts /
\*   UpdateEndpointSettings / EnableHealthMonitoring.
MemUpdate(o, op, e, t) ==
  CASE op \in FlagOps -> SetFlag(o, op)
    [] op = "update" ->
         [o EXCEPT !.FailureThreshold = e.FailureThreshold,
                   !.SuccessThreshold = e.SuccessThreshold,
                   !.CheckInterval = e.CheckInterval]
    [] op = "enable-health" ->
         [o EXCEPT !.MonitorHealth = TRUE,
                   !.CheckInterval = e.CheckInterval,
                   !.FailureThreshold = e.FailureThreshold,
                   !.SuccessThreshold = e.SuccessThreshold,
                   !.NextCheck = t]

\* Monitor.AddEndpoint under Monitor.mu: a fresh state replaces the table entry of
\* id.  The replaced state is collected unless a probe task still holds it.
Inserted(id, e, t1, t2) ==
  LET freed == Collect(heap, [states EXCEPT ![id] = NoRef], probes)
      free == {r \in Refs : freed[r] = NoObj}
      new == IF free = {} THEN NoRef ELSE CHOOSE r \in free : \A q \in free : r <= q
  IN [ref |-> new,
      states |-> [states EXCEPT ![id] = new],
      heap |-> [r \in Refs |-> IF r = new THEN NewState(id, e, t1, t2) ELSE freed[r]]]

\* Monitor.RemoveEndpoint under Monitor.mu: delete(m.states, id).
Dropped(id) ==
  LET st == [states EXCEPT ![id] = NoRef]
  IN [states |-> st, heap |-> Collect(heap, st, probes)]

\* ------------------------------------------- admin requests, one at a time
\* A request that runs with no other request beside it.  Its Database calls touch
\* only the Store, which no probe task reads, so the request is one step, taken
\* where it holds Monitor.mu.

\* HealthHandler.AddEndpoint -> Monitor.AddEndpoint.  GetAllEndpoints finds no
\* endpoint of this name or URL (else the request ends with a conflict).
AdminAdd(id, mh, ivl, f, s, skews) ==
  /\ phase = "run"
  /\ store[id] = NoRec
  /\ \E t2 \in LaterReads(now, skews) :
       LET e == WithDefaults(NewStored(mh, ivl, f, s))
           ins == Inserted(id, e, now, t2)
       IN /\ ins.ref # NoRef
          /\ store' = [store EXCEPT ![id] = e]
          /\ states' = ins.states
          /\ heap' = ins.heap
          /\ now' = t2
          /\ last' = Step("add", id, ins.ref, StatusUnknown, ins.heap[ins.ref], "none",
                          t2 - now)
  /\ UNCHANGED <<phase, probes, admin>>
  /\ History

\* HealthHandler.DeleteEndpoint -> Monitor.RemoveEndpoint.
AdminRemove(id) ==
  /\ phase = "run"
  /\ store' = [store EXCEPT ![id] = NoRec]
  /\ states' = Dropped(id).states
  /\ heap' = Dropped(id).heap
  /\ last' = NoStep
  /\ UNCHANGED <<now, phase, probes, admin>>
  /\ History

\* A request that changes a stored endpoint and then its state: GetEndpoint finds
\* the id (else the request ends with an error and changes nothing).
AdminChange(id, op, ivl, f, s) ==
  /\ phase = "run"
  /\ store[id] # NoRec
  /\ LET e == WithDefaults(Requested(op, store[id], ivl, f, s))
         r == states[id]
     IN /\ store' = [store EXCEPT ![id] = e]
        /\ heap' = IF r = NoRef THEN heap
                   ELSE [heap EXCEPT ![r] = MemUpdate(@, op, e, now)]
        /\ last' = NoStep
  /\ UNCHANGED <<now, phase, states, probes, admin>>
  /\ History

\* handleEndpointAction -> Monitor.EnableEndpoint / DisableEndpoint / SuppressAlerts /
\* UnsuppressAlerts.
AdminFlag(id, op) == op \in FlagOps /\ AdminChange(id, op, <<>>, 0, 0)

\* HealthHandler.UpdateEndpoint -> Monitor.UpdateEndpointSettings.
AdminUpdate(id, ivl, f, s) == AdminChange(id, "update", ivl, f, s)

\* HealthHandler.EnableHealthMonitoring -> Monitor.EnableHealthMonitoring (the
\* passkey accepted).
AdminEnableHealth(id, ivl, f, s) == AdminChange(id, "enable-health", ivl, f, s)

\* --------------------------------------- admin requests, running in parallel
\* Each request runs on its own goroutine of the web server.  Its steps are the
\* places where it holds a lock: the Store's mutex (one Database call) or Monitor.mu.

\* HealthHandler.AddEndpoint up to its call of Monitor.AddEndpoint: GetAllEndpoints
\* finds no endpoint of this name or URL.
AddRequest(t, id, mh, ivl, f, s) ==
  /\ phase = "run"
  /\ admin[t].pc = "idle"
  /\ store[id] = NoRec
  /\ admin' = [admin EXCEPT ![t] = [pc |-> "save", op |-> "add", id |-> id,
                                    rec |-> NewStored(mh, ivl, f, s)]]
  /\ last' = NoStep
  /\ UNCHANGED <<now, phase, store, states, heap, probes>>
  /\ History

\* Database.GetEndpoint of a flag, update or enable-health request, and the change
\* the request makes to the copy it got.
GetEndpoint(t, id, op, ivl, f, s) ==
  /\ phase = "run"
  /\ admin[t].pc = "idle"
  /\ store[id] # NoRec
  /\ admin' = [admin EXCEPT ![t] = [pc |-> "save", op |-> op, id |-> id,
                                    rec |-> Requested(op, store[id], ivl, f, s)]]
  /\ last' = NoStep
  /\ UNCHANGED <<now, phase, store, states, heap, probes>>
  /\ History

\* Database.SaveEndpoint: defaults filled into the caller's record, the record put.
SaveEndpoint(t) ==
  /\ admin[t].pc = "save"
  /\ LET e == WithDefaults(admin[t].rec)
     IN /\ store' = [store EXCEPT ![admin[t].id] = e]
        /\ admin' = [admin EXCEPT ![t].pc = "table", ![t].rec = e]
  /\ last' = NoStep
  /\ UNCHANGED <<now, phase, states, heap, probes>>
  /\ History

\* Database.DeleteEndpoint, the first step of Monitor.RemoveEndpoint.  Deleting an
\* absent key succeeds.
DeleteEndpoint(t, id) ==
  /\ phase = "run"
  /\ admin[t].pc = "idle"
  /\ store' = [store EXCEPT ![id] = NoRec]
  /\ admin' = [admin EXCEPT ![t] = [pc |-> "table", op |-> "remove", id |-> id,
                                    rec |-> NoRec]]
  /\ last' = NoStep
  /\ UNCHANGED <<now, phase, states, heap, probes>>
  /\ History

\* The request's step under Monitor.mu, after which it returns: Monitor.AddEndpoint
\* inserts, Monitor.RemoveEndpoint deletes, the others update the state if the table
\* has one.
UpdateTable(t) ==
  /\ admin[t].pc = "table"
  /\ LET a == admin[t]
         r == states[a.id]
         ins == Inserted(a.id, a.rec, now, now)
     IN CASE a.op = "add" ->
               /\ ins.ref # NoRef
               /\ states' = ins.states
               /\ heap' = ins.heap
               /\ last' = Step("add", a.id, ins.ref, StatusUnknown, ins.heap[ins.ref],
                               "none", 0)
          [] a.op = "remove" ->
               /\ states' = Dropped(a.id).states
               /\ heap' = Dropped(a.id).heap
               /\ last' = NoStep
          [] OTHER ->
               /\ heap' = IF r = NoRef THEN heap
                          ELSE [heap EXCEPT ![r] = MemUpdate(@, a.op, a.rec, now)]
               /\ last' = NoStep
               /\ UNCHANGED states
  /\ admin' = [admin EXCEPT ![t] = IdleThread]
  /\ UNCHANGED <<now, phase, store, probes>>
  /\ History

\* ---------------------------------------------------- adds that may conflict
\* The name and URL of the endpoint an id is generated from, where requests for
\* the two ids give the same name and different URLs.
NameOf == [i \in Ids |-> "api"]
URLOf == [i \in Ids |-> IF i = "e1" THEN "http://api" ELSE "https://api"]

\* HealthHandler.AddEndpoint's scan of GetAllEndpoints: a stored endpoint has the
\* request's name or its URL.
Conflict(id) ==
  \E j \in Ids : store[j] # NoRec /\ (NameOf[j] = NameOf[id] \/ URLOf[j] = URLOf[id])

\* HealthHandler.AddEndpoint up to its call of Monitor.AddEndpoint, the scan having
\* found no conflict.
AddRequestNamed(t, id, mh, ivl, f, s) ==
  /\ phase = "run"
  /\ admin[t].pc = "idle"
  /\ ~Conflict(id)
  /\ admin' = [admin EXCEPT ![t] = [pc |-> "save", op |-> "add", id |-> id,
                                    rec |-> NewStored(mh, ivl, f, s)]]
  /\ last' = NoStep
  /\ UNCHANGED <<now, phase, store, states, heap, probes>>
  /\ History

\* ------------------------------------------------- requests that are refused
\* What a refused request answers: the operation asked for and the error returned.
Reply(op, id, err) ==
  [op |-> "reply", id |-> id, ref |-> NoRef, prev |-> StatusUnknown, after |-> NoObj,
   alert |-> "none", skew |-> 0, request |-> op, error |-> err]

\* Variant of SaveEndpointFails: the error of the put is dropped and the request goes
\* on to the state table.
SaveEndpointFailsIgnored(t) ==
  /\ admin[t].pc = "save"
  /\ admin' = [admin EXCEPT ![t].pc = "table"]
  /\ last' = Reply(admin[t].op, admin[t].id, "store")
  /\ UNCHANGED <<now, phase, store, states, heap, probes>>
  /\ History

\* Database.SaveEndpoint returns an error (the bolt transaction is rolled back):
\* Monitor.AddEndpoint, the Database flag operations behind Monitor.EnableEndpoint /
\* DisableEndpoint / SuppressAlerts / UnsuppressAlerts, UpdateEndpointSettings and
\* EnableHealthMonitoring return it before they take Monitor.mu.
SaveEndpointFails(t) ==
  /\ admin[t].pc = "save"
  /\ admin' = [admin EXCEPT ![t] = IdleThread]
  /\ last' = Reply(admin[t].op, admin[t].id, "store")
  /\ UNCHANGED <<now, phase, store, states, heap, probes>>
  /\ History

\* Database.DeleteEndpoint returns an error: Monitor.RemoveEndpoint returns it.
DeleteEndpointFails(t, id) ==
  /\ phase = "run"
  /\ admin[t].pc = "idle"
  /\ last' = Reply("remove", id, "store")
  /\ UNCHANGED <<now, phase, store, states, heap, probes, admin>>
  /\ History

\* Database.GetEndpoint finds no record of the id: "endpoint not found".  The flag
\* requests answer it through handleEndpointAction, UpdateEndpoint and
\* EnableHealthMonitoring answer "Endpoint not found".
GetEndpointFails(t, id, op) ==
  /\ phase = "run"
  /\ admin[t].pc = "idle"
  /\ store[id] = NoRec
  /\ last' = Reply(op, id, "not found")
  /\ UNCHANGED <<now, phase, store, states, heap, probes, admin>>
  /\ History

\* ------------------------------------------------------------- shutdown
\* A step of Stop or of a goroutine of Monitor.wg: it changes `life` and no endpoint.
LifeStep(l) ==
  /\ phase = "run"
  /\ life' = l
  /\ last' = NoStep
  /\ UNCHANGED <<now, phase, store, states, heap, probes, admin, trace, bucket>>
  /\ TrackAlerts

\* A tick before Stop.
Tick == ~life.cancelled /\ CheckDueEndpoints

\* Monitor.Stop up to wg.Wait(): the ticker is stopped and the context cancelled.  The
\* ticker goroutine may be inside checkDueEndpoints, and a tick may wait in ticker.C.
Stop ==
  /\ life.stop = "no"
  /\ \E b \in BOOLEAN :
       LifeStep([life EXCEPT !.cancelled = TRUE, !.buffered = b, !.stop = "waiting"])

\* The ticker goroutine's select takes the tick left in ticker.C although the context
\* is cancelled: one more checkDueEndpoints.
LateTick ==
  /\ phase = "run"
  /\ life.cancelled /\ life.buffered /\ life.tick = "running"
  /\ AllIdle
  /\ probes' = [r \in Refs |-> IF Due(r) THEN "spawned" ELSE "idle"]
  /\ life' = [life EXCEPT !.buffered = FALSE]
  /\ last' = NoStep
  /\ UNCHANGED <<now, phase, store, states, heap, admin, trace, bucket>>
  /\ TrackAlerts

\* Variant of TickExits: the ticker goroutine does not wait for its probe tasks.
TickExitsEarly ==
  /\ life.cancelled /\ life.tick = "running"
  /\ LifeStep([life EXCEPT !.tick = "exited"])

\* The ticker goroutine's select takes ctx.Done() and the goroutine returns.  It is at
\* the select only when checkDueEndpoints' wg.Wait() has returned.
TickExits ==
  /\ life.cancelled /\ life.tick = "running"
  /\ AllIdle
  /\ LifeStep([life EXCEPT !.tick = "exited"])

\* startSSLExpirySummaryScheduler: the timer of the day fires, sendSSLExpirySummary
\* runs, the next timer is set.
SummarySends ==
  /\ ~life.cancelled /\ life.summary = "waiting"
  /\ LifeStep([life EXCEPT !.summary = "sending"])

SummarySent ==
  /\ life.summary = "sending"
  /\ LifeStep([life EXCEPT !.summary = "waiting"])

\* The scheduler's select takes ctx.Done().
SummaryExits ==
  /\ life.cancelled /\ life.summary = "waiting"
  /\ LifeStep([life EXCEPT !.summary = "exited"])

\* Stop's wg.Wait() returns: both goroutines of Monitor.wg are done.
StopReturns ==
  /\ life.stop = "waiting" /\ life.tick = "exited" /\ life.summary = "exited"
  /\ LifeStep([life EXCEPT !.stop = "returned"])

\* ------------------------------------------------ history bucket operations
\* What a pass or a query of the history bucket answered.
Cleaned(shift, n) ==
  [op |-> "cleanup", id |-> "", ref |-> NoRef, prev |-> StatusUnknown, after |-> NoObj,
   alert |-> "none", skew |-> 0, shift |-> shift, deleted |-> n]

Listed(id, limit, records) ==
  [op |-> "list", id |-> id, ref |-> NoRef, prev |-> StatusUnknown, after |-> NoObj,
   alert |-> "none", skew |-> 0, limit |-> limit, records |-> records]

\* A step of the Store on the history bucket alone.
BucketStep(b, step) ==
  /\ bucket' = b
  /\ last' = step
  /\ UNCHANGED <<now, phase, store, states, heap, probes, admin, trace, life>>
  /\ TrackAlerts

\* Database.SaveHealthCheckRecord: Put under the record's key.
SaveHealthCheckRecord(id, ts) ==
  /\ Record(id, ts) \notin bucket
  /\ Cardinality(bucket) < MaxRecords
  /\ BucketStep(bucket \cup {Record(id, ts)}, NoStep)

\* Database.CleanupOldData, under the Store's lock from its clock reading on.
CleanupOldData ==
  \E shift \in ZoneShifts :
    LET kept == CleanupKept(bucket, now, shift)
    IN BucketStep(kept, Cleaned(shift, Cardinality(bucket \ kept)))

\* Database.GetHealthHistory.
GetHealthHistory(id, limit) ==
  BucketStep(bucket, Listed(id, limit, HealthHistory(bucket, id, limit)))

\* ----------------------------------------------- endpoint bucket operations
\* What a put or a get of the endpoints bucket did.
PutDone(id, given, written) ==
  [op |-> "put", id |-> id, ref |-> NoRef, prev |-> StatusUnknown, after |-> NoObj,
   alert |-> "none", skew |-> 0, given |-> given, written |-> written]

GetDone(id, record) ==
  [op |-> "get", id |-> id, ref |-> NoRef, prev |-> StatusUnknown, after |-> NoObj,
   alert |-> "none", skew |-> 0, record |-> record]

\* The records a caller passes to SaveEndpoint under id: a new one (created_at zero),
\* or the one GetEndpoint returned, changed by the caller.
Given(id) ==
  {[ID |-> id, Method |-> m, Timeout |-> to, CheckInterval |-> ivl,
    ExpectedStatus |-> es, FailureThreshold |-> f, SuccessThreshold |-> su,
    CreatedAt |-> c, UpdatedAt |-> u] :
      m \in {"", "POST"}, to \in {0, 5}, ivl \in {0, 2}, es \in {0, 204},
      f \in {0, 1}, su \in {0, 1},
      c \in {ZeroTime} \cup (IF store[id] = NoRec THEN {}
                             ELSE {Unmarshal(store[id]).CreatedAt}),
      u \in {ZeroTime}}

\* Database.SaveEndpoint on a full record: timestamps, defaults, Marshal, Put.
PutEndpoint(id, e) ==
  /\ store' = [store EXCEPT ![id] = Marshal(Saved(e, now))]
  /\ last' = PutDone(id, e, Saved(e, now))
  /\ UNCHANGED <<now, phase, states, heap, probes, admin>>
  /\ History

\* Database.GetEndpoint of a stored id.
LoadEndpoint(id) ==
  /\ store[id] # NoRec
  /\ last' = GetDone(id, Unmarshal(store[id]))
  /\ UNCHANGED <<now, phase, store, states, heap, probes, admin>>
  /\ History

\* ------------------------------------------------------- id generator calls
\* What a call of the id generator was given and returned; `again` marks a call on
\* the id the call before returned, with an empty URL.
Generated(name, url, again) ==
  [op |-> "id", id |-> "", ref |-> NoRef, prev |-> StatusUnknown, after |-> NoObj,
   alert |-> "none", skew |-> 0, name |-> name, url |-> url, again |-> again,
   result |-> GenerateIDWithURL(name, url)]

\* A step that only computes: it touches neither Store nor Monitor.
Computes(step) ==
  /\ last' = step
  /\ UNCHANGED <<now, phase, store, states, heap, probes, admin>>
  /\ History

GenerateID(name, url) ==
  /\ last = NoStep
  /\ Computes(Generated(name, url, FALSE))

GenerateIDAgain ==
  /\ last.op = "id"
  /\ ~last.again
  /\ Computes(Generated(last.result, <<>>, TRUE))

\* ------------------------------------------------------ SSL-summary task
\* One pass of the scheduler's loop up to the select: the clock read, the fire time
\* and the delay.  `fires` counts the summaries sent so far and `fired` is the fire
\* time the last one was sent for.
Scheduled(cfg, fires, fired) ==
  LET hm == SummaryClock(cfg)
      next == NextSummary(now, hm.hour, hm.minute)
  IN [op |-> "schedule", id |-> "", ref |-> NoRef, prev |-> StatusUnknown,
      after |-> NoObj, alert |-> "none", skew |-> 0, config |-> cfg, at |-> now,
      next |-> next, duration |-> next - now, fires |-> fires, fired |-> fired]

StartSummaryScheduler(cfg) ==
  /\ last = NoStep
  /\ Computes(Scheduled(cfg, 0, ZeroTime))

\* time.After(duration) fires and the summary is sent.  The timer is armed after the
\* clock was read, so when it fires the wall clock is past `next` by `late` unless the
\* clock was set back by `back` meanwhile.
SummaryTimerFires(late, back) ==
  /\ last.op = "schedule"
  /\ last.fires < MaxFires
  /\ now' = last.at + (IF last.duration > 0 THEN last.duration ELSE 0) + late - back
  /\ last' = [op |-> "summary", id |-> "", ref |-> NoRef, prev |-> StatusUnknown,
              after |-> NoObj, alert |-> "none", skew |-> 0, config |-> last.config,
              fires |-> last.fires + 1, fired |-> last.next]
  /\ UNCHANGED <<phase, store, states, heap, probes, admin>>
  /\ History

RescheduleSummary ==
  /\ last.op = "summary"
  /\ Computes(Scheduled(last.config, last.fires, last.fired))

\* The select's other branch: the context is cancelled and the task returns.
SummaryCancelled ==
  /\ last.op = "schedule"
  /\ Computes([op |-> "summary-exit", id |-> "", ref |-> NoRef, prev |-> StatusUnknown,
               after |-> NoObj, alert |-> "none", skew |-> 0])

\* HealthHandler.AddEndpoint whose scan finds the name or the URL: 409, nothing
\* written.
AddConflict(t, id) ==
  /\ phase = "run"
  /\ admin[t].pc = "idle"
  /\ Conflict(id)
  /\ last' = Reply("add", id, "conflict")
  /\ UNCHANGED <<now, phase, store, states, heap, probes, admin>>
  /\ History

\* ----------------------------------------------- requests with a passkey
\* config.AdminPasskey where one is set.
AdminPasskey == "secret"

\* Variant of PasskeyAccepted: the comparison is skipped.
PasskeyAcceptedAlways(configured, given) == TRUE

\* The handlers' passkey test: passed if no passkey is configured or the given one
\* is the configured one.
PasskeyAccepted(configured, given) ==
  ~(configured # "" /\ given # configured)

\* What a request that went on to the Monitor was: the operation and the passkey.
Asked(op, id, given) ==
  [op |-> "asked", id |-> id, ref |-> NoRef, prev |-> StatusUnknown, after |-> NoObj,
   alert |-> "none", skew |-> 0, request |-> op, error |-> "", passkey |-> given]

\* What a request refused before the Monitor was called answers.
Refused(op, id, given, err) ==
  [op |-> "reply", id |-> id, ref |-> NoRef, prev |-> StatusUnknown, after |-> NoObj,
   alert |-> "none", skew |-> 0, request |-> op, error |-> err, passkey |-> given]

\* HealthHandler.EnableHealthMonitoring up to its SaveEndpoint: the passkey test,
\* GetEndpoint, the settings of the request put into the copy.
EnableHealthRequest(t, id, given, ivl, f, s) ==
  /\ phase = "run"
  /\ admin[t].pc = "idle"
  /\ IF ~PasskeyAccepted(AdminPasskey, given)
       THEN /\ last' = Refused("enable-health", id, given, "unauthorized")
            /\ UNCHANGED admin
       ELSE IF store[id] = NoRec
         THEN /\ last' = Refused("enable-health", id, given, "not found")
              /\ UNCHANGED admin
         ELSE /\ last' = Asked("enable-health", id, given)
              /\ admin' = [admin EXCEPT ![t] =
                             [pc |-> "save", op |-> "enable-health", id |-> id,
                              rec |-> Requested("enable-health", store[id], ivl, f, s)]]
  /\ UNCHANGED <<now, phase, store, states, heap, probes>>
  /\ History

\* ------------------------------------------------------------- status
\* The fields of a state HealthHandler.GetStatus puts into its answer, in the order
\* it reads them.
StatusFields ==
  <<"Status", "LastCheck", "LastError", "ConsecutiveFailures", "ConsecutiveSuccesses",
    "SSLExpiringSoon", "DaysToExpiry">>

\* The values of those fields in a state.
Reported(o) == [k \in 1..Len(StatusFields) |-> o[StatusFields[k]]]

\* What a status request answered for an id: the values the handler read, and the
\* values the state had when Monitor.GetStatus returned.
StatusReply(id, r, read, seen) ==
  [op |-> "status", id |-> id, ref |-> r, prev |-> StatusUnknown, after |-> NoObj,
   alert |-> "none", skew |-> 0, reported |-> read, seen |-> seen]

\* Monitor.GetStatus: under Monitor.mu and each state's read lock, the map from id
\* to the pointer of the state.  The request keeps the pointer of id.
GetStatus(t, id) ==
  /\ admin[t].pc = "idle"
  /\ states[id] # NoRef
  /\ admin' = [admin EXCEPT ![t] =
                 [pc |-> "read", op |-> "status", id |-> id,
                  rec |-> [ptr |-> states[id], read |-> <<>>,
                           seen |-> Reported(heap[states[id]])]]]
  /\ last' = NoStep
  /\ UNCHANGED <<now, phase, store, states, heap, probes>>
  /\ History

\* HealthHandler.GetStatus reads the next field through the pointer, holding no
\* lock; after the last field it answers.
ReadStatusField(t) ==
  /\ admin[t].pc = "read"
  /\ LET a == admin[t]
         k == Len(a.rec.read) + 1
         read == Append(a.rec.read, heap[a.rec.ptr][StatusFields[k]])
     IN IF k < Len(StatusFields)
          THEN /\ admin' = [admin EXCEPT ![t].rec.read = read]
               /\ last' = NoStep
          ELSE /\ admin' = [admin EXCEPT ![t] = IdleThread]
               /\ last' = StatusReply(a.id, a.rec.ptr, read, a.rec.seen)
  /\ UNCHANGED <<now, phase, store, states, heap, probes>>
  /\ History

\* ------------------------------------------------------ config import
\* The StoredEndpoint MigrateFromConfig builds for a config endpoint with thresholds
\* f and s, as SaveEndpoint stores it: MonitorHealth and CheckInterval are not set.
Migrated(f, s) ==
  WithDefaults([Enabled |-> TRUE, AlertsSuppressed |-> FALSE, MonitorHealth |-> FALSE,
                CheckInterval |-> 0, FailureThreshold |-> f, SuccessThreshold |-> s])

\* What ImportSpec remembers of its last step: the imports run so far and the config
\* they read; for an import, the Store before it.
Imported(op, runs, cfg, before) ==
  [op |-> op, id |-> "", ref |-> NoRef, prev |-> StatusUnknown, after |-> NoObj,
   alert |-> "none", skew |-> 0, runs |-> runs, config |-> cfg, before |-> before]

\* Database.MigrateFromConfig over the config's endpoints cfg: an endpoint whose id
\* GetEndpoint finds is skipped, any other is saved.
MigrateFromConfig(cfg) ==
  /\ IF last = NoStep THEN TRUE ELSE last.runs < MaxImports /\ cfg = last.config
  /\ store' = [i \in Ids |-> IF i \in cfg /\ store[i] = NoRec THEN Migrated(0, 0)
                             ELSE store[i]]
  /\ last' = Imported("import", IF last = NoStep THEN 1 ELSE last.runs + 1, cfg, store)
  /\ UNCHANGED <<now, phase, states, heap, probes, admin>>
  /\ History

\* The Store's half of an admin change made between two imports: a flag operation
\* or an update of the thresholds.
StoreChange(id, op) ==
  /\ last # NoStep
  /\ store[id] # NoRec
  /\ store' = [store EXCEPT ![id] = WithDefaults(Requested(op, @, <<>>, 1, 1))]
  /\ last' = Imported("change", last.runs, last.config, store)
  /\ UNCHANGED <<now, phase, states, heap, probes, admin>>
  /\ History

\* The Store's half of an admin remove made between two imports.
StoreDelete(id) ==
  /\ last # NoStep
  /\ store' = [store EXCEPT ![id] = NoRec]
  /\ last' = Imported("change", last.runs, last.config, store)
  /\ UNCHANGED <<now, phase, states, heap, probes, admin>>
  /\ History

\* ------------------------------------------------------ certificate checks
\* A TLS probe that got a certificate, the clock counted in hours: the warning
\* window in the config file, the certificate's notAfter, the clock reading and
\* what CheckSSLCertificate returned.
CheckCertificate(configured, notAfter) ==
  /\ last = NoStep
  /\ Computes([op |-> "cert", id |-> "", ref |-> NoRef, prev |-> StatusUnknown,
               after |-> NoObj, alert |-> "none", skew |-> 0,
               configured |-> configured, notAfter |-> notAfter, at |-> now,
               info |-> ExpiryInfo(notAfter, now, LoadedWarningDays(configured),
                                   HoursPerDay)])

\* ------------------------------------------------------------------ locks
\* Who holds and who waits for Monitor.mu (the state table), a state's mu and the
\* Store's mu, read off the position of each goroutine.  Read sections that call
\* nothing are one step; a sync.RWMutex admits no new reader while a writer waits.
\* Positions of a probe task beyond "http" and "ssl":
\*   "commit-ok", "commit-fail"  the HTTP request returned, the handler calls Lock
\*   "tls"       handleCheckSuccess in CheckSSLCertificate, state.mu held
\*   "tls-only"  checkSSLOnly in CheckSSLCertificate, state.mu held
\*   "save"      saveHealthRecord calls SaveHealthCheckRecord, state.mu held
\*   "saving"    the bolt transaction runs, state.mu and the Store's mu held
\* Positions of a request: "save" and "table" as above, then
\*   "state"     Monitor.mu held, state.mu.Lock called
\*   "scan"      GetStatus / getExpiringCertificates: Monitor.mu read-held
\*   "cleanup"   CleanupOldData: the Store's mu held
StateHeld(r) == probes[r] \in {"tls", "tls-only", "save", "saving"}

StateWanted(r) ==
  \/ probes[r] \in {"commit-ok", "commit-fail", "ssl"}
  \/ \E t \in Threads : admin[t].pc = "state" /\ states[admin[t].id] = r

StateReadable(r) == ~StateHeld(r) /\ ~StateWanted(r)

TableHeld == \E t \in Threads : admin[t].pc = "state"

TableWanted == \E t \in Threads : admin[t].pc = "table"

TableReaders == life.tick = "scan" \/ \E t \in Threads : admin[t].pc = "scan"

TableLockable == ~TableHeld /\ ~TableReaders

TableReadable == ~TableHeld /\ ~TableWanted

StoreHeld ==
  \/ \E r \in Refs : probes[r] = "saving"
  \/ \E t \in Threads : admin[t].pc = "cleanup"

StoreWanted ==
  \/ \E r \in Refs : probes[r] = "save"
  \/ \E t \in Threads : admin[t].pc = "save"

StoreReadable == ~StoreHeld /\ ~StoreWanted

\* Variant of CanSave: the history write reads the state table first, taking
\* Monitor.mu for reading while the handler holds state.mu.
CanSaveUnderTable(r) == ~StoreHeld /\ TableReadable

\* SaveHealthCheckRecord's d.mu.Lock() returns.
CanSave(r) == ~StoreHeld

\* shouldCheckSSL of checkSSLOnly and handleCheckSuccess.
SSLCheckDue(o, t) == o.LastSSLCheck = ZeroTime \/ t - o.LastSSLCheck >= SSLCheckPeriod

\* A step of a probe task that leaves the task at position pos with state o.
TaskStep(r, pos, o, step) ==
  /\ probes' = [probes EXCEPT ![r] = pos]
  /\ heap' = [heap EXCEPT ![r] = o]
  /\ last' = step
  /\ UNCHANGED <<now, phase, store, states, admin>>
  /\ History

\* checkEndpoint's read of MonitorHealth, under state.mu.RLock.
ReadForCheck(r) == StateReadable(r) /\ CheckEndpoint(r)

\* The HTTP request of checkEndpoint returns; no lock is held while it runs.
HTTPReturns(r, ok) ==
  /\ probes[r] = "http"
  /\ IF ok THEN heap[r].ConsecutiveSuccesses < MaxCount
           ELSE heap[r].ConsecutiveFailures < MaxCount
  /\ TaskStep(r, IF ok THEN "commit-ok" ELSE "commit-fail", heap[r], NoStep)

\* handleCheckFailure from state.mu.Lock() to the call of SaveHealthCheckRecord.
LockForFailure(r) ==
  /\ probes[r] = "commit-fail"
  /\ ~StateHeld(r)
  /\ LET res == FailureResult(heap[r], now, now)
     IN TaskStep(r, "save", res.state,
                  Step("failure", heap[r].ID, r, heap[r].Status, res.state, res.alert, 0))

\* handleCheckSuccess from state.mu.Lock() to its call of CheckSSLCertificate or, if
\* no TLS probe is due or the URL is not https, to the call of SaveHealthCheckRecord.
LockForSuccess(r) ==
  /\ probes[r] = "commit-ok"
  /\ ~StateHeld(r)
  /\ IF SSLCheckDue(heap[r], now) /\ heap[r].ID \in HttpsIds
       THEN TaskStep(r, "tls", heap[r], NoStep)
       ELSE LET res == SuccessResult(heap[r], now, now, TLSDown)
            IN TaskStep(r, "save", res.state,
                         Step("success", heap[r].ID, r, heap[r].Status, res.state,
                              res.alert, 0))

\* CheckSSLCertificate returns to handleCheckSuccess, which goes on to the call of
\* SaveHealthCheckRecord.
TLSReturns(r, env) ==
  /\ probes[r] = "tls"
  /\ LET res == SuccessResult(heap[r], now, now, env)
     IN TaskStep(r, "save", res.state,
                  Step("success", heap[r].ID, r, heap[r].Status, res.state, res.alert, 0))

\* SaveHealthCheckRecord takes the Store's mu.
SaveLocks(r) ==
  /\ probes[r] = "save"
  /\ CanSave(r)
  /\ TaskStep(r, "saving", heap[r], NoStep)

\* The bolt transaction ends, SaveHealthCheckRecord and the handler return: the
\* Store's mu and state.mu are released.
SaveReturns(r) ==
  /\ probes[r] = "saving"
  /\ Finish(r, heap[r])
  /\ last' = NoStep
  /\ UNCHANGED <<now, phase, store, states, admin>>
  /\ History

\* checkSSLOnly from state.mu.Lock() to its call of CheckSSLCertificate or, if no TLS
\* probe is due, to its end.
LockForSSLOnly(r) ==
  /\ probes[r] = "ssl"
  /\ ~StateHeld(r)
  /\ IF SSLCheckDue(heap[r], now)
       THEN TaskStep(r, "tls-only", heap[r], NoStep)
       ELSE LET o == SSLOnlyResult(heap[r], now, TLSDown)
            IN /\ Finish(r, o)
               /\ last' = Step("sslonly", o.ID, r, heap[r].Status, o, "none", 0)
               /\ UNCHANGED <<now, phase, store, states, admin>>
               /\ History

\* CheckSSLCertificate returns to checkSSLOnly, which ends.
TLSOnlyReturns(r, env) ==
  /\ probes[r] = "tls-only"
  /\ LET o == SSLOnlyResult(heap[r], now, env)
     IN /\ Finish(r, o)
        /\ last' = Step("sslonly", o.ID, r, heap[r].Status, o, "none", 0)
  /\ UNCHANGED <<now, phase, store, states, admin>>
  /\ History

\* A step of a request that changes only its own position.
ThreadStep(t, a) ==
  /\ admin' = [admin EXCEPT ![t] = a]
  /\ last' = NoStep
  /\ UNCHANGED <<now, phase, store, states, heap, probes>>
  /\ History

\* Database.GetEndpoint of a flag request, under the Store's mu for reading.
FlagGet(t, id, op) == StoreReadable /\ GetEndpoint(t, id, op, <<>>, 0, 0)

\* Database.SaveEndpoint of a flag request, under the Store's mu.
FlagSave(t) == ~StoreHeld /\ SaveEndpoint(t)

\* m.mu.Lock() of Monitor.EnableEndpoint and the other flag operations returns.
LockTable(t) ==
  /\ admin[t].pc = "table"
  /\ TableLockable
  /\ ThreadStep(t, [admin[t] EXCEPT !.pc = "state"])

\* state.mu.Lock() returns, the flag is set, both locks are released.
LockedUpdate(t) ==
  /\ admin[t].pc = "state"
  /\ LET a == admin[t]
         r == states[a.id]
     IN /\ r # NoRef => ~StateHeld(r)
        /\ heap' = IF r = NoRef THEN heap
                   ELSE [heap EXCEPT ![r] = MemUpdate(@, a.op, a.rec, now)]
  /\ admin' = [admin EXCEPT ![t] = IdleThread]
  /\ last' = NoStep
  /\ UNCHANGED <<now, phase, store, states, probes>>
  /\ History

\* m.mu.RLock() of Monitor.GetStatus or of getExpiringCertificates returns.
ScanLock(t) ==
  /\ phase = "run"
  /\ admin[t].pc = "idle"
  /\ TableReadable
  /\ ThreadStep(t, [pc |-> "scan", op |-> "status", id |-> "", rec |-> NoRec])

\* The scan reads every state of the table under its read lock and returns.
ScanStates(t) ==
  /\ admin[t].pc = "scan"
  /\ \A r \in Refs : InTable(r) => StateReadable(r)
  /\ ThreadStep(t, IdleThread)

\* Database.CleanupOldData takes the Store's mu.
CleanupLock(t) ==
  /\ phase = "run"
  /\ admin[t].pc = "idle"
  /\ ~StoreHeld
  /\ ThreadStep(t, [pc |-> "cleanup", op |-> "cleanup", id |-> "", rec |-> NoRec])

\* CleanupOldData's transaction ends.
CleanupReturns(t) ==
  /\ admin[t].pc = "cleanup"
  /\ ThreadStep(t, IdleThread)

\* A step of the ticker goroutine inside checkDueEndpoints.
TickStep(pos, pr) ==
  /\ life' = [life EXCEPT !.tick = pos]
  /\ probes' = pr
  /\ last' = NoStep
  /\ UNCHANGED <<now, phase, store, states, heap, admin, trace, bucket>>
  /\ TrackAlerts

\* A tick: the tasks of the previous tick have ended (wg.Wait), m.mu.RLock() of
\* checkDueEndpoints returns.
TickLock ==
  /\ phase = "run"
  /\ life.tick = "running"
  /\ AllIdle
  /\ TableReadable
  /\ TickStep("scan", probes)

\* checkDueEndpoints reads every state under its read lock, spawns a task for each
\* due one and releases Monitor.mu.
TickScan ==
  /\ life.tick = "scan"
  /\ \A r \in Refs : InTable(r) => StateReadable(r)
  /\ TickStep("running", [r \in Refs |-> IF Due(r) THEN "spawned" ELSE "idle"])

\* ------------------------------------------------------- specifications
Scheduler ==
  \/ CheckAllEndpoints
  \/ StartReturns
  \/ CheckDueEndpoints
  \/ AdvanceClock

\* Spec: one health-monitored endpoint under probes and admin requests that come
\* one at a time.  Thresholds range over Thresholds, the check interval is the
\* default one, and a handler's clock readings coincide.
Thresholds == {1, 2}

Next ==
  \/ Scheduler
  \/ \E r \in Refs : CheckEndpoint(r)
  \/ \E r \in Refs : HandleCheckSuccess(r, {0})
  \/ \E r \in Refs : HandleCheckFailure(r, {0})
  \/ \E f \in Thresholds, s \in Thresholds :
       AdminAdd("e1", TRUE, DefaultCheckInterval, f, s, {0})
  \/ AdminRemove("e1")
  \/ \E op \in FlagOps : AdminFlag("e1", op)
  \/ \E f \in Thresholds \cup {0}, s \in Thresholds \cup {0} :
       AdminUpdate("e1", <<>>, f, s)

Spec == Init /\ [][Next]_vars

\* ScenarioSpec: one health-monitored endpoint with thresholds fixed at start and no
\* admin request; every step is the endpoint's next due probe running to its outcome,
\* and the outcomes are recorded in trace.
ScenarioThresholds == {1, 2, 3}

ScenarioStored ==
  {[WithDefaults(NewStored(TRUE, DefaultCheckInterval, f, s)) EXCEPT !.AlertsSuppressed = sup] :
     f \in ScenarioThresholds, s \in ScenarioThresholds, sup \in BOOLEAN}

ScenarioInit == InitWith({"e1"}, ScenarioStored) /\ store["e1"] # NoRec

\* The state of the scenario's endpoint.
Subject == heap[states["e1"]]

\* checkEndpoint -> handleCheckSuccess / handleCheckFailure on the due endpoint, with
\* no other step in between; the clock then moves on to the time the next probe is due.
ScenarioOutcome(kind, res) ==
  /\ Len(trace) < MaxOutcomes
  /\ heap' = [heap EXCEPT ![states["e1"]] = res.state]
  /\ now' = res.state.NextCheck
  /\ last' = Step(IF kind = "ok" THEN "success" ELSE "failure", "e1", states["e1"],
                  Subject.Status, res.state, res.alert, 0)
  /\ trace' = Append(trace, [outcome |-> kind, status |-> res.state.Status,
                             alert |-> res.alert])
  /\ TrackAlerts
  /\ UNCHANGED <<phase, store, states, probes, admin, life, bucket>>

ScenarioSuccess == \E env \in TLSEnv : ScenarioOutcome("ok", SuccessResult(Subject, now, now, env))

ScenarioFailure == ScenarioOutcome("fail", FailureResult(Subject, now, now))

ScenarioNext == ScenarioSuccess \/ ScenarioFailure

ScenarioSpec == ScenarioInit /\ [][ScenarioNext]_vars

\* TimeSpec: one https endpoint, health-monitored or TLS-only, with every check
\* interval a request can set; the clock may advance between a handler's clock
\* readings.
Intervals == {-1, 0, 2}
Skews == {0, 1}

TimeStored == {WithDefaults(NewStored(mh, DefaultCheckInterval, 0, 0)) : mh \in BOOLEAN}

TimeInit == InitWith({"e2"}, TimeStored)

TimeNext ==
  \/ Scheduler
  \/ \E r \in Refs : CheckEndpoint(r)
  \/ \E r \in Refs : CheckSSLOnly(r)
  \/ \E r \in Refs : HandleCheckSuccess(r, Skews)
  \/ \E r \in Refs : HandleCheckFailure(r, Skews)
  \/ \E mh \in BOOLEAN, ivl \in Intervals : AdminAdd("e2", mh, ivl, 0, 0, Skews)
  \/ AdminRemove("e2")
  \/ \E ivl \in Intervals : AdminUpdate("e2", <<ivl>>, 0, 0)
  \/ \E ivl \in Intervals : AdminEnableHealth("e2", <<ivl>>, 0, 0)
  \/ AdminEnableHealth("e2", <<>>, 0, 0)

TimeSpec == TimeInit /\ [][TimeNext]_vars

\* AdminSpec: after Start's sweep, admin requests on one id running in parallel on
\* two goroutines.
AdminNext ==
  \/ CheckAllEndpoints
  \/ StartReturns
  \/ \E r \in Refs : CheckEndpoint(r)
  \/ \E r \in Refs : HandleCheckSuccess(r, {0})
  \/ \E r \in Refs : HandleCheckFailure(r, {0})
  \/ \E t \in Threads : AddRequest(t, "e1", TRUE, DefaultCheckInterval, 0, 0)
  \/ \E t \in Threads, op \in FlagOps : GetEndpoint(t, "e1", op, <<>>, 0, 0)
  \/ \E t \in Threads : GetEndpoint(t, "e1", "update", <<>>, 1, 1)
  \/ \E t \in Threads : GetEndpoint(t, "e1", "enable-health", <<>>, 0, 0)
  \/ \E t \in Threads : SaveEndpoint(t)
  \/ \E t \in Threads : DeleteEndpoint(t, "e1")
  \/ \E t \in Threads : UpdateTable(t)

AdminSpec == Init /\ [][AdminNext]_vars

\* Admin requests one after another, each Database call of which may fail.
ChangeOps == FlagOps \cup {"update", "enable-health"}

ReplyNext ==
  \/ CheckAllEndpoints
  \/ StartReturns
  \/ \E r \in Refs : CheckEndpoint(r)
  \/ \E r \in Refs : HandleCheckSuccess(r, {0})
  \/ \E r \in Refs : HandleCheckFailure(r, {0})
  \/ AddRequest(1, "e1", TRUE, DefaultCheckInterval, 0, 0)
  \/ \E op \in FlagOps : GetEndpoint(1, "e1", op, <<>>, 0, 0)
  \/ GetEndpoint(1, "e1", "update", <<>>, 1, 1)
  \/ GetEndpoint(1, "e1", "enable-health", <<>>, 0, 0)
  \/ \E op \in ChangeOps : GetEndpointFails(1, "e1", op)
  \/ SaveEndpoint(1)
  \/ SaveEndpointFails(1)
  \/ DeleteEndpoint(1, "e1")
  \/ DeleteEndpointFails(1, "e1")
  \/ UpdateTable(1)

ReplySpec == Init /\ [][ReplyNext]_vars

\* LifeSpec: one endpoint probed on ticks until Stop.  LifeFairSpec adds what the
\* scheduler and terminating probe I/O give: every goroutine that can take a step
\* takes one.
ProbeStep ==
  \/ \E r \in Refs : CheckEndpoint(r)
  \/ \E r \in Refs : HandleCheckSuccess(r, {0})
  \/ \E r \in Refs : HandleCheckFailure(r, {0})

LifeNext ==
  \/ CheckAllEndpoints
  \/ StartReturns
  \/ AdvanceClock
  \/ Tick
  \/ ProbeStep
  \/ Stop
  \/ LateTick
  \/ TickExits
  \/ SummarySends
  \/ SummarySent
  \/ SummaryExits
  \/ StopReturns

LifeSpec == Init /\ [][LifeNext]_vars

LifeFairSpec ==
  /\ Init
  /\ [][LifeNext]_vars
  /\ WF_vars(ProbeStep)
  /\ WF_vars(LateTick \/ TickExits)
  /\ WF_vars(SummarySent)
  /\ WF_vars(SummaryExits)
  /\ WF_vars(StopReturns)

\* HistorySpec: the history bucket on its own, time in hours.  Records are put with
\* timestamps on both sides of the retention cutoff, then listed or cleaned up.
Stamps ==
  {CleanupTime - 4 * HoursPerDay, CleanupTime - 3 * HoursPerDay - 1,
   CleanupTime - 3 * HoursPerDay, CleanupTime - 3 * HoursPerDay + 1,
   CleanupTime - 2 * HoursPerDay, CleanupTime - 1}

Limits == {0, 1, 2}

\* The Store opened with no Monitor built on it yet.
NoMonitor ==
  /\ phase = "new"
  /\ states = [i \in Ids |-> NoRef]
  /\ heap = [r \in Refs |-> NoObj]
  /\ probes = [r \in Refs |-> "idle"]
  /\ admin = [t \in Threads |-> IdleThread]
  /\ last = NoStep
  /\ refAlert = [r \in Refs |-> "none"]
  /\ refSilent = [r \in Refs |-> FALSE]
  /\ trace = <<>>
  /\ life = Started

HistoryInit ==
  /\ now = CleanupTime
  /\ store = [i \in Ids |-> NoRec]
  /\ bucket = {}
  /\ NoMonitor

HistoryNext ==
  \/ \E id \in Ids, ts \in Stamps : SaveHealthCheckRecord(id, ts)
  \/ CleanupOldData
  \/ \E id \in Ids, limit \in Limits : GetHealthHistory(id, limit)

HistorySpec == HistoryInit /\ [][HistoryNext]_vars

\* StoreSpec: puts and gets of the endpoints bucket with every combination of
\* missing and given fields, the clock advancing between them.
\* A record with every field missing.
Blank(id) ==
  [ID |-> id, Method |-> "", Timeout |-> 0, CheckInterval |-> 0, ExpectedStatus |-> 0,
   FailureThreshold |-> 0, SuccessThreshold |-> 0, CreatedAt |-> ZeroTime,
   UpdatedAt |-> ZeroTime]

\* The bucket holds a record of e2, put at time 0, and none of e1.
StoreInit ==
  /\ now = 0
  /\ store = [i \in Ids |-> IF i = "e2" THEN Marshal(Saved(Blank(i), 0)) ELSE NoRec]
  /\ bucket = {}
  /\ NoMonitor

StoreNext ==
  \/ AdvanceClock
  \/ \E e \in Given("e1") : PutEndpoint("e1", e)
  \/ \E id \in Ids : LoadEndpoint(id)

StoreSpec == StoreInit /\ [][StoreNext]_vars

\* IdSpec: the id generator on every name and URL of up to MaxLen characters over
\* letters, a digit, separators and a character of no class, then on its own result.
IdAlphabet == {"a", "Z", "7", "-", "/", " ", "#"}

RECURSIVE StringsUpTo(_)
StringsUpTo(n) ==
  IF n = 0 THEN {<<>>}
  ELSE LET shorter == StringsUpTo(n - 1)
       IN shorter \cup {Append(str, c) : str \in shorter, c \in IdAlphabet}

IdInit ==
  /\ now = 0
  /\ store = [i \in Ids |-> NoRec]
  /\ bucket = {}
  /\ NoMonitor

\* The first call, on any name and URL.
GenerateIDFirst ==
  /\ last = NoStep
  /\ \E name \in StringsUpTo(MaxLen), url \in StringsUpTo(MaxLen) : GenerateID(name, url)

IdNext ==
  \/ GenerateIDFirst
  \/ GenerateIDAgain

IdSpec == IdInit /\ [][IdNext]_vars

\* SummarySpec: the SSL-summary task alone, from several times of day and settings.
T0930 == <<"0", "9", ":", "3", "0">>
T0000 == <<"0", "0", ":", "0", "0">>
T2345 == <<"2", "3", ":", "4", "5">>
SummaryTimes == {T0930, T0000, T2345, <<"9", "h", "3", "0">>}
StartTimes ==
  {0, 8 * MinutesPerHour, 9 * MinutesPerHour + 30, 10 * MinutesPerHour,
   MinutesPerDay - 1}
Lateness == {1, 2}
ClockSetBack == {0, 3}

SummaryInit ==
  /\ now \in StartTimes
  /\ phase = "run"
  /\ store = [i \in Ids |-> NoRec]
  /\ states = [i \in Ids |-> NoRef]
  /\ heap = [r \in Refs |-> NoObj]
  /\ probes = [r \in Refs |-> "idle"]
  /\ admin = [t \in Threads |-> IdleThread]
  /\ last = NoStep
  /\ refAlert = [r \in Refs |-> "none"]
  /\ refSilent = [r \in Refs |-> FALSE]
  /\ trace = <<>>
  /\ life = Started
  /\ bucket = {}

SummaryNext ==
  \/ \E cfg \in SummaryTimes : StartSummaryScheduler(cfg)
  \/ \E late \in Lateness, back \in ClockSetBack : SummaryTimerFires(late, back)
  \/ RescheduleSummary
  \/ SummaryCancelled

SummarySpec == SummaryInit /\ [][SummaryNext]_vars

\* ConflictSpec: add and remove requests for two endpoints of one name, on two
\* goroutines, the Store empty at the start.
ConflictNext ==
  \/ CheckAllEndpoints
  \/ StartReturns
  \/ \E t \in Threads, id \in Ids :
       AddRequestNamed(t, id, TRUE, DefaultCheckInterval, 0, 0)
  \/ \E t \in Threads, id \in Ids : AddConflict(t, id)
  \/ \E t \in Threads : SaveEndpoint(t)
  \/ \E t \in Threads, id \in Ids : DeleteEndpoint(t, id)
  \/ \E t \in Threads : UpdateTable(t)

ConflictSpec == InitWith({}, Preloaded) /\ [][ConflictNext]_vars

\* PasskeySpec: enable-health requests with right, wrong and empty passkeys on an
\* endpoint that is stored with or without health monitoring, or is not stored.
Passkeys == {AdminPasskey, "guess", ""}

PasskeyNext ==
  \/ Scheduler
  \/ \E r \in Refs : CheckEndpoint(r)
  \/ \E r \in Refs : CheckSSLOnly(r)
  \/ \E r \in Refs : HandleCheckSuccess(r, {0})
  \/ \E r \in Refs : HandleCheckFailure(r, {0})
  \/ \E t \in Threads, given \in Passkeys, ivl \in {<<>>, <<2>>} :
       EnableHealthRequest(t, "e2", given, ivl, 0, 1)
  \/ \E t \in Threads : SaveEndpoint(t)
  \/ \E t \in Threads : UpdateTable(t)

PasskeySpec == TimeInit /\ [][PasskeyNext]_vars

\* StatusSpec: status requests beside the probes of one health-monitored endpoint.
StatusNext ==
  \/ Scheduler
  \/ \E r \in Refs : CheckEndpoint(r)
  \/ \E r \in Refs : HandleCheckSuccess(r, {0})
  \/ \E r \in Refs : HandleCheckFailure(r, {0})
  \/ GetStatus(1, "e1")
  \/ ReadStatusField(1)

StatusSpec == Init /\ [][StatusNext]_vars

\* ImportSpec: the config import run up to MaxImports times on a Store that starts
\* empty, with admin changes to the Store between the runs.
ImportNext ==
  \/ \E cfg \in (SUBSET Ids) \ {{}} : MigrateFromConfig(cfg)
  \/ \E id \in Ids, op \in FlagOps \cup {"update"} : StoreChange(id, op)
  \/ \E id \in Ids : StoreDelete(id)

ImportSpec == IdInit /\ [][ImportNext]_vars

\* CertSpec: one TLS probe at hour CertNow of a certificate that expired up to two
\* days ago or expires within MaxCertDays, under several warning windows.
CertNow == 2 * HoursPerDay
WarningWindows == {0, 1, 7}

CertInit ==
  /\ now = CertNow
  /\ store = [i \in Ids |-> NoRec]
  /\ bucket = {}
  /\ NoMonitor

CertNext ==
  \E configured \in WarningWindows, notAfter \in 0..(CertNow + MaxCertDays * HoursPerDay) :
    CheckCertificate(configured, notAfter)

CertSpec == CertInit /\ [][CertNext]_vars

\* PairSpec: two health-monitored endpoints under sweep, ticks and probes.
PairNext ==
  \/ Scheduler
  \/ \E r \in Refs : CheckEndpoint(r)
  \/ \E r \in Refs : HandleCheckSuccess(r, {0})
  \/ \E r \in Refs : HandleCheckFailure(r, {0})

PairSpec == InitWith(Ids, Preloaded) /\ [][PairNext]_vars

\* Enable, disable, suppress and unsuppress requests for one stored endpoint, on two
\* goroutines of the web server, after Start.
FlagNext ==
  \/ CheckAllEndpoints
  \/ StartReturns
  \/ \E r \in Refs : CheckEndpoint(r)
  \/ \E r \in Refs : HandleCheckSuccess(r, {0})
  \/ \E r \in Refs : HandleCheckFailure(r, {0})
  \/ \E t \in Threads, op \in FlagOps : GetEndpoint(t, "e1", op, <<>>, 0, 0)
  \/ \E t \in Threads : SaveEndpoint(t)
  \/ \E t \in Threads : UpdateTable(t)

FlagSpec == InitWith({"e1"}, Preloaded) /\ [][FlagNext]_vars

\* RecordSpec: the scenario's endpoint, every outcome of which writes its history
\* record.  state.LastCheck is a time.Now() whose UnixNano() (the wall clock) makes
\* the key, while the tick's now.Before(nextCheck) compares monotonic readings: a
\* wall clock set back between two probes does not delay the next probe, it only
\* lowers the next reading.  The Store accepts every put.
\* Monitor.saveHealthRecord: the record of state o.
HealthRecord(o) == [EndpointID |-> o.ID, Timestamp |-> o.LastCheck, Status |-> o.Status]

\* bolt's Put: the value under the record's key is replaced.
PutRecord(b, rec) == {q \in b : HistoryKey(q) # HistoryKey(rec)} \cup {rec}

\* By how many check intervals the wall clock is set back before the next probe.
WallSetBacks == {0, 2}

\* checkEndpoint -> handleCheckSuccess / handleCheckFailure -> saveHealthRecord on the
\* due endpoint; the wall clock then reads what it does when the next probe is due.
RecordedOutcome(kind, res, back) ==
  /\ Len(trace) < MaxOutcomes
  /\ res.state.NextCheck - back >= 0
  /\ heap' = [heap EXCEPT ![states["e1"]] = res.state]
  /\ now' = res.state.NextCheck - back
  /\ last' = Step(IF kind = "ok" THEN "success" ELSE "failure", "e1", states["e1"],
                  Subject.Status, res.state, res.alert, 0)
  /\ trace' = Append(trace, [outcome |-> kind, status |-> res.state.Status,
                             alert |-> res.alert, at |-> res.state.LastCheck])
  /\ bucket' = PutRecord(bucket, HealthRecord(res.state))
  /\ TrackAlerts
  /\ UNCHANGED <<phase, store, states, probes, admin, life>>

RecordedSuccess ==
  \E back \in WallSetBacks, env \in TLSEnv :
    RecordedOutcome("ok", SuccessResult(Subject, now, now, env), back)

RecordedFailure ==
  \E back \in WallSetBacks : RecordedOutcome("fail", FailureResult(Subject, now, now), back)

RecordNext == RecordedSuccess \/ RecordedFailure

RecordInit == InitWith({"e1"}, Preloaded) /\ store["e1"] # NoRec

RecordSpec == RecordInit /\ [][RecordNext]_vars

\* LockSpec: one https endpoint, health-monitored or TLS-only, with the ticker, its
\* probe task, and two goroutines that run flag requests, status scans and cleanup
\* passes, every step ending where a lock is taken or an I/O call returns.
LockOps == {"enable", "disable"}

\* The steps that continue a goroutine at work.
LockSteps ==
  \/ StartReturns
  \/ TickScan
  \/ \E r \in Refs : ReadForCheck(r)
  \/ \E r \in Refs, ok \in BOOLEAN : HTTPReturns(r, ok)
  \/ \E r \in Refs : LockForSuccess(r)
  \/ \E r \in Refs : LockForFailure(r)
  \/ \E r \in Refs, env \in TLSEnv : TLSReturns(r, env)
  \/ \E r \in Refs : LockForSSLOnly(r)
  \/ \E r \in Refs, env \in TLSEnv : TLSOnlyReturns(r, env)
  \/ \E r \in Refs : SaveLocks(r)
  \/ \E r \in Refs : SaveReturns(r)
  \/ \E t \in Threads : FlagSave(t)
  \/ \E t \in Threads : LockTable(t)
  \/ \E t \in Threads : LockedUpdate(t)
  \/ \E t \in Threads : ScanStates(t)
  \/ \E t \in Threads : CleanupReturns(t)

LockNext ==
  \/ CheckAllEndpoints
  \/ AdvanceClock
  \/ TickLock
  \/ \E t \in Threads, op \in LockOps : FlagGet(t, "e2", op)
  \/ \E t \in Threads : ScanLock(t)
  \/ \E t \in Threads : CleanupLock(t)
  \/ LockSteps

LockSpec == TimeInit /\ [][LockNext]_vars

\* ------------------------------------------------------------ properties
IsOutcome(step) == step.op \in {"success", "failure"}

\* The steps that write a history record: Monitor.saveHealthRecord is the last call
\* of handleCheckSuccess and of handleCheckFailure, and of nothing else.
SavesRecord(step) == step.op \in {"success", "failure"}

\* Length of the run of `kind` outcomes that ends the recorded sequence.
TrailingRun(seq, kind) ==
  Cardinality({i \in 1..Len(seq) : \A j \in i..Len(seq) : seq[j].outcome = kind})

IsPrefix(a, b) == Len(a) <= Len(b) /\ \A i \in 1..Len(a) : a[i] = b[i]

\* C1 (ScenarioSpec): with thresholds F, S >= 1 fixed, whenever the outcomes so far
\* end in a run of at least F failures the status is unhealthy, and whenever they end
\* in a run of at least S successes the status is healthy.
C1_RunSetsStatus ==
  /\ TrailingRun(trace, "fail") >= Subject.FailureThreshold
        => Subject.Status = StatusUnhealthy
  /\ TrailingRun(trace, "ok") >= Subject.SuccessThreshold
        => Subject.Status = StatusHealthy

\* A run of exactly F = 3 failures has just been completed after earlier successes.
C1_Witness ==
  /\ Subject.FailureThreshold = 3
  /\ TrailingRun(trace, "fail") = 3
  /\ Len(trace) > 3
  /\ Subject.Status = StatusUnhealthy

\* C2 (Spec): status does not flap.  An outcome that leaves its counter below the
\* threshold leaves the status as it was; an outcome changes the status only to
\* unhealthy (a failure, consecutive_failures >= F) or to healthy (a success,
\* consecutive_successes >= S), never back to unknown; and no step other than a
\* probe outcome changes the status of a state.
C2_NoFlap ==
  /\ [](IsOutcome(last) =>
         /\ (last.op = "failure"
               /\ last.after.ConsecutiveFailures < last.after.FailureThreshold)
              => last.after.Status = last.prev
         /\ (last.op = "success"
               /\ last.after.ConsecutiveSuccesses < last.after.SuccessThreshold)
              => last.after.Status = last.prev
         /\ last.after.Status # last.prev =>
              \/ /\ last.after.Status = StatusUnhealthy
                 /\ last.op = "failure"
                 /\ last.after.ConsecutiveFailures >= last.after.FailureThreshold
              \/ /\ last.after.Status = StatusHealthy
                 /\ last.op = "success"
                 /\ last.after.ConsecutiveSuccesses >= last.after.SuccessThreshold)
  /\ [][\A r \in Refs :
          (heap[r] # NoObj /\ heap'[r] # NoObj /\ heap'[r].Status # heap[r].Status)
            => last'.ref = r /\ (IsOutcome(last') \/ last'.op = "add")]_vars

\* A failure below the threshold has left a healthy endpoint healthy.
C2_Witness ==
  /\ last.op = "failure"
  /\ last.prev = StatusHealthy
  /\ last.after.Status = StatusHealthy
  /\ last.after.ConsecutiveFailures < last.after.FailureThreshold

Scenario1 == <<"ok", "ok", "fail", "fail", "fail", "ok", "ok">>

Scenario1Statuses ==
  <<StatusUnknown, StatusHealthy, StatusHealthy, StatusHealthy, StatusUnhealthy,
    StatusUnhealthy, StatusHealthy>>

Scenario1Alerts == <<"none", "none", "none", "none", "failure", "none", "recovery">>

Scenario1Start ==
  /\ Subject.FailureThreshold = 3
  /\ Subject.SuccessThreshold = 2
  /\ ~Subject.AlertsSuppressed

\* C3 (ScenarioSpec): from unknown with F=3, S=2 and alerts not suppressed, the
\* outcomes [ok, ok, fail, fail, fail, ok, ok] give the statuses [unknown, healthy,
\* healthy, healthy, unhealthy, unhealthy, healthy], a failure alert at step 5, a
\* recovery alert at step 7 and no other alert.
C3_Scenario1 ==
  (Scenario1Start /\ IsPrefix([i \in 1..Len(trace) |-> trace[i].outcome], Scenario1))
    => \A i \in 1..Len(trace) :
         /\ trace[i].status = Scenario1Statuses[i]
         /\ trace[i].alert = Scenario1Alerts[i]

\* The whole sequence of scenario 1 has been played.
C3_Witness ==
  /\ Scenario1Start
  /\ [i \in 1..Len(trace) |-> trace[i].outcome] = Scenario1

\* C4 (Spec): consecutive_failures and consecutive_successes of a state are never
\* both > 0; a success outcome leaves consecutive_failures = 0, a failure outcome
\* leaves consecutive_successes = 0, under every admin operation.
C4_CountersExclusive ==
  /\ \A r \in Refs :
       heap[r] # NoObj =>
         heap[r].ConsecutiveFailures = 0 \/ heap[r].ConsecutiveSuccesses = 0
  /\ last.op = "success" => last.after.ConsecutiveFailures = 0
  /\ last.op = "failure" => last.after.ConsecutiveSuccesses = 0

\* A success has just reset a failure counter that was above 0.
C4_Witness ==
  /\ last.op = "success"
  /\ last.prev = StatusUnhealthy
  /\ last.after.ConsecutiveSuccesses > 0

\* C5 as stated (Spec): in every state where no handler runs, a healthy state has
\* consecutive_successes >= success_threshold and an unhealthy state has
\* consecutive_failures >= failure_threshold.
C5_AsStated ==
  \A r \in Refs :
    InTable(r) =>
      /\ heap[r].Status = StatusHealthy
           => heap[r].ConsecutiveSuccesses >= heap[r].SuccessThreshold
      /\ heap[r].Status = StatusUnhealthy
           => heap[r].ConsecutiveFailures >= heap[r].FailureThreshold

\* C5 amended (Spec): the counter vouches for the status only where the status is
\* set.  Right after a success outcome a healthy state has consecutive_successes >=
\* success_threshold unless it was healthy before the outcome; right after a failure
\* outcome an unhealthy state has consecutive_failures >= failure_threshold unless it
\* was unhealthy before.
C5_CounterAtTheEdge ==
  /\ (last.op = "success" /\ last.after.Status = StatusHealthy)
       => \/ last.after.ConsecutiveSuccesses >= last.after.SuccessThreshold
          \/ last.prev = StatusHealthy
  /\ (last.op = "failure" /\ last.after.Status = StatusUnhealthy)
       => \/ last.after.ConsecutiveFailures >= last.after.FailureThreshold
          \/ last.prev = StatusUnhealthy

\* A failure outcome has just turned a healthy state unhealthy.
C5_Witness ==
  /\ last.op = "failure"
  /\ last.prev = StatusHealthy
  /\ last.after.Status = StatusUnhealthy

\* C6 as stated (Spec): the alerts of an endpoint state alternate; an alert is never
\* of the kind of the alert before it.
C6_AsStated ==
  [][last'.alert # "none" => refAlert[last'.ref] # last'.alert]_vars

\* C6 amended (Spec): for one endpoint state, from its creation until it is replaced
\* or removed, two consecutive alerts are of the same kind only if the state crossed
\* the edge between them silently, alerts being suppressed.
C6_AlternateUnlessSuppressed ==
  [][(last'.alert # "none" /\ refAlert[last'.ref] = last'.alert)
       => refSilent[last'.ref]]_vars

\* A state has had a failure alert, then a recovery alert.
C6_Witness ==
  /\ last.alert = "recovery"
  /\ last.ref # NoRef
  /\ refAlert[last.ref] = "recovery"
  /\ ~last.after.AlertsSuppressed

\* C7 (Spec): a failure outcome hands a failure alert to the alerter exactly when
\* the status before was not unhealthy, the status after is unhealthy and
\* alerts_suppressed is false; a success outcome a recovery alert exactly when the
\* status before was unhealthy, the status after is healthy and alerts_suppressed is
\* false; no other step raises an alert.
C7_AlertExactlyOnEdge ==
  /\ last.op = "failure" =>
       /\ last.alert \in {"failure", "none"}
       /\ last.alert = "failure" <=>
            /\ last.prev # StatusUnhealthy
            /\ last.after.Status = StatusUnhealthy
            /\ ~last.after.AlertsSuppressed
  /\ last.op = "success" =>
       /\ last.alert \in {"recovery", "none"}
       /\ last.alert = "recovery" <=>
            /\ last.prev = StatusUnhealthy
            /\ last.after.Status = StatusHealthy
            /\ ~last.after.AlertsSuppressed
  /\ ~IsOutcome(last) => last.alert = "none"

\* An edge out of unhealthy has been crossed without an alert, alerts being
\* suppressed.
C7_Witness ==
  /\ last.op = "success"
  /\ last.prev = StatusUnhealthy
  /\ last.after.Status = StatusHealthy
  /\ last.after.AlertsSuppressed
  /\ last.alert = "none"

\* C8 as stated (TimeSpec): in every state of an endpoint whose last_check is set,
\* next_check = last_check + 24h if monitor_health is false, and next_check =
\* last_check + check_interval if it is true.
C8_AsStated ==
  \A r \in Refs :
    (InTable(r) /\ heap[r].LastCheck # ZeroTime) =>
      heap[r].NextCheck = heap[r].LastCheck
                            + (IF heap[r].MonitorHealth THEN heap[r].CheckInterval
                                                        ELSE SSLCheckPeriod)

\* C8 amended (TimeSpec): the equation holds where a probe sets the two times.  Right
\* after a TLS-only check next_check = last_check + 24h.  Right after an HTTP
\* outcome next_check = last_check + check_interval + d, d >= 0 being the time
\* between the handler's two clock readings.  A new state has next_check = last_check
\* + d with no interval added.
C8_NextCheckWhereSet ==
  /\ last.op = "sslonly" => last.after.NextCheck = last.after.LastCheck + SSLCheckPeriod
  /\ IsOutcome(last) =>
       /\ last.skew >= 0
       /\ last.after.NextCheck = last.after.LastCheck + last.after.CheckInterval + last.skew
  /\ last.op = "add" =>
       /\ last.skew >= 0
       /\ last.after.NextCheck = last.after.LastCheck + last.skew

\* The failure handler has read the clock twice with time passing in between, on a
\* state whose certificate has been checked and whose check interval is not the
\* default one.
C8_Witness ==
  /\ IsOutcome(last)
  /\ last.skew > 0
  /\ last.after.CheckInterval = SSLCheckPeriod
  /\ last.after.LastSSLCheck # ZeroTime
  /\ last.after.ConsecutiveSuccesses = 0

\* C9 (TimeSpec): every state in the table has next_check >= last_check, whatever
\* check interval the add, update and enable-health requests have accepted.
C9_NextNotBeforeLast ==
  \A r \in Refs : InTable(r) => heap[r].NextCheck >= heap[r].LastCheck

\* C10 (AdminSpec): whenever no admin request is under way, the ids of the Store are
\* the ids of the state table.
C10_SameIds ==
  (\A t \in Threads : admin[t].pc = "idle")
    => \A i \in Ids : (store[i] # NoRec) <=> (states[i] # NoRef)

\* C11: a Monitor mutation writes the Store before it touches the state table, and a
\* mutation whose Store write returned an error leaves the table as it was.  The
\* table (the id map, or a state while no probe runs) changes only in the step of a
\* request whose Store write has been made, and the step that returns the Store's
\* error changes neither the table nor the Store.
C11_StoreWriteFirst ==
  [][/\ (states' # states \/ (phase = "run" /\ heap' # heap))
          => \E t \in Threads : /\ admin[t].pc = "table"
                                /\ admin'[t].pc = "idle"
                                /\ store[admin[t].id] = admin[t].rec
     /\ (last'.op = "reply" /\ last'.error = "store")
          => (states' = states /\ heap' = heap /\ store' = store
              /\ \A t \in Threads : admin'[t].pc = "idle")]_vars

\* A disable request whose Store write failed: the endpoint is still enabled in the
\* Store and in its state.
C11_Witness ==
  /\ last.op = "reply"
  /\ last.error = "store"
  /\ last.request = "disable"
  /\ store[last.id] # NoRec
  /\ store[last.id].Enabled
  /\ states[last.id] # NoRef
  /\ heap[states[last.id]].Enabled

\* C12: a remove, flag, update or enable-health request that names an id found
\* neither in the Store nor in the state table is answered "not found" and changes
\* nothing: no such request gets past its first Database call, and the step that
\* answers it leaves the Store and the table alone.
C12_UnknownIdRefused ==
  [][/\ \A t \in Threads :
          (/\ admin[t].pc = "idle"
           /\ admin'[t].pc # "idle"
           /\ admin'[t].op # "add"
           /\ store[admin'[t].id] = NoRec
           /\ states[admin'[t].id] = NoRef) => FALSE
     /\ (last'.op = "reply" /\ last'.error = "not found")
          => (store' = store /\ states' = states /\ heap' = heap)]_vars

\* C13 (TimeSpec): a TLS-only check leaves status, counters, last error and history
\* alone and sets next_check = now + 24h.  It makes a TLS connection exactly if the
\* URL is https and last_ssl_check is zero or at least 24h old, whatever URL and
\* last_ssl_check the state has.  No step makes a TLS connection for a state whose
\* last one is less than 24h old, and a tick starts no probe of a state before its
\* next_check.
C13_TLSOnlyOncePerDay ==
  [][LET o == heap[last'.ref]
         n == last'.after
         t == now'
     IN /\ last'.op = "sslonly" =>
             /\ n.Status = o.Status
             /\ n.ConsecutiveFailures = o.ConsecutiveFailures
             /\ n.ConsecutiveSuccesses = o.ConsecutiveSuccesses
             /\ n.LastError = o.LastError
             /\ ~SavesRecord(last')
             /\ n.NextCheck = t + SSLCheckPeriod
             /\ \A id \in Ids, l \in ZeroTime..MaxTime, env \in TLSEnv :
                  LET o2 == [o EXCEPT !.ID = id, !.LastSSLCheck = l]
                      n2 == SSLOnlyResult(o2, t, env)
                  IN (n2.LastSSLCheck = t /\ l # t)
                       <=> (id \in HttpsIds /\ (l = ZeroTime \/ t - l >= SSLCheckPeriod))
        /\ (last'.op \in {"sslonly", "success"} /\ n.LastSSLCheck # o.LastSSLCheck) =>
             (o.LastSSLCheck = ZeroTime \/ n.LastSSLCheck - o.LastSSLCheck >= SSLCheckPeriod)
        /\ \A r \in Refs :
             (phase = "run" /\ probes[r] = "idle" /\ probes'[r] = "spawned") =>
               heap[r].NextCheck <= now]_vars

\* A TLS-only check a day or more after the start has read the certificate of an
\* endpoint whose health is not monitored.
C13_Witness ==
  /\ last.op = "sslonly"
  /\ ~last.after.MonitorHealth
  /\ now >= SSLCheckPeriod
  /\ last.after.LastSSLCheck = now
  /\ last.after.SSLCertExpiry = CertNotAfter
  /\ last.after.NextCheck = now + SSLCheckPeriod
  /\ last.after.Status = StatusUnknown

\* C14 (TimeSpec): a TLS-only check or success handler whose TLS probe failed leaves
\* the ssl_cert_expiry, days_to_expiry and ssl_expiring_soon it knew unchanged.
C14_FailedProbeKeepsExpiry ==
  [][LET o == heap[last'.ref]
         n == last'.after
         Kept == /\ n.SSLCertExpiry = o.SSLCertExpiry
                 /\ n.DaysToExpiry = o.DaysToExpiry
                 /\ n.SSLExpiringSoon = o.SSLExpiringSoon
     IN /\ (last'.op = "sslonly" /\ n = SSLOnlyResult(o, now', TLSDown)) => Kept
        /\ (last'.op = "success" /\ n = SuccessResult(o, now, now', TLSDown).state)
             => Kept]_vars

C16_NothingAfterCancel ==
  [][life.cancelled =>
       (/\ ~SavesRecord(last')
        /\ last'.alert = "none"
        /\ \A r \in Refs :
             (heap[r] # NoObj /\ heap'[r] # NoObj) =>
               /\ heap'[r].Status = heap[r].Status
               /\ heap'[r].ConsecutiveFailures = heap[r].ConsecutiveFailures
               /\ heap'[r].ConsecutiveSuccesses = heap[r].ConsecutiveSuccesses)]_vars

\* C17 (Spec): a remove request that comes while a probe of the endpoint is running
\* deletes the endpoint from the Store and from the state table, and the probe
\* writes no history record after that: a step that saves a record of an endpoint
\* acts on the state the table holds for that endpoint.
C17_NoRecordAfterRemove ==
  [][SavesRecord(last') =>
       (store[last'.id] # NoRec /\ states[last'.id] = last'.ref)]_vars

\* C18 as stated (HistorySpec): a cleanup pass at time now leaves exactly the records
\* with timestamp >= now - 3 * 24h.
C18_AsStated ==
  [][last'.op = "cleanup" =>
       bucket' = {r \in bucket : r.Timestamp >= now - DataRetentionDays * HoursPerDay}]_vars

\* C18 amended (HistorySpec): a cleanup pass at time now leaves exactly the records
\* with timestamp >= cutoff, the cutoff being the instant three calendar days before
\* now on the local wall clock: now - 72h, an hour more or less when the zone's
\* offset changed in those three days.  Records at least 73h old always go, records
\* less than 71h old always stay.
C18_CalendarDayCutoff ==
  [][last'.op = "cleanup" =>
       LET day == HoursPerDay
           cutoff == now - DataRetentionDays * day + last'.shift
       IN /\ last'.shift \in ZoneShifts
          /\ bucket' = {r \in bucket : r.Timestamp >= cutoff}
          /\ last'.deleted = Cardinality(bucket) - Cardinality(bucket')
          /\ \A r \in bucket :
               /\ r.Timestamp < now - DataRetentionDays * day - 1 => r \notin bucket'
               /\ r.Timestamp > now - DataRetentionDays * day + 1 => r \in bucket']_vars

\* The pass has deleted the record four days old out of three and left the records
\* two days and one hour old.
C18_Witness ==
  /\ last.op = "cleanup"
  /\ last.deleted = 1
  /\ bucket = {Record("e1", now - 2 * HoursPerDay), Record("e1", now - 1)}

\* C19 (HistorySpec): a query of an endpoint's history answers records of that
\* endpoint only, from the most recent timestamp to the oldest, all of them with
\* limit 0 and the `limit` most recent ones with limit > 0.
C19_MostRecentFirst ==
  last.op = "list" =>
    LET res == last.records
        mine == {r \in bucket : r.EndpointID = last.id}
        answered == {res[i] : i \in 1..Len(res)}
    IN /\ answered \subseteq mine
       /\ \A i, j \in 1..Len(res) : i < j => res[i].Timestamp > res[j].Timestamp
       /\ Len(res) = IF last.limit > 0 THEN Min(last.limit, Cardinality(mine))
                                      ELSE Cardinality(mine)
       /\ \A r \in mine \ answered : \A q \in answered : q.Timestamp > r.Timestamp

C21_Idempotent ==
  (last.op = "id" /\ last.again) => last.result = last.name

\* The generator has been applied again to an id with a '-' inside, made from a name
\* and a URL that both held separators.
C21_Witness ==
  /\ last.op = "id"
  /\ last.again
  /\ Len(last.name) = 3
  /\ last.name[2] = "-"
  /\ last.result = last.name

\* The positions of the letters and digits of a string, in order.
AlphaNumAt(str) == {i \in 1..Len(str) : str[i] \in AlphaNum}

\* The k-th smallest element of a set of positions.
Nth(S, k) == CHOOSE i \in S : Cardinality({j \in S : j <= i}) = k

\* C22 (IdSpec): the id holds only letters, digits and '-'; its letters and digits
\* are those of name + "-" + url in order; two of them that follow each other are
\* one '-' apart if a separator stood between them in the input and adjacent if
\* not, whatever else stood there; the id begins with '-' exactly if a separator
\* stood before the first letter or digit; it never holds "--" and never ends in
\* '-'.  ("My Api", "https://api.example.com/v1/") gives
\* "My-Api-https-api-example-com-v1".
C22_Sanitized ==
  /\ GenerateIDWithURL(<<"M", "y", " ", "A", "p", "i">>,
                       <<"h", "t", "t", "p", "s", ":", "/", "/", "a", "p", "i", ".",
                         "e", "x", "a", "m", "p", "l", "e", ".", "c", "o", "m", "/",
                         "v", "1", "/">>)
       = <<"M", "y", "-", "A", "p", "i", "-", "h", "t", "t", "p", "s", "-", "a", "p",
           "i", "-", "e", "x", "a", "m", "p", "l", "e", "-", "c", "o", "m", "-", "v",
           "1">>
  /\ last.op = "id" =>
       LET input == last.name \o <<"-">> \o last.url
           id == last.result
           P == AlphaNumAt(input)
           Q == AlphaNumAt(id)
           n == Cardinality(P)
           SepIn(lo, hi) == \E i \in (lo + 1)..(hi - 1) : input[i] \in Separators
       IN /\ \A i \in 1..Len(id) : id[i] \in AlphaNum \cup {"-"}
          /\ Cardinality(Q) = n
          /\ \A k \in 1..n : id[Nth(Q, k)] = input[Nth(P, k)]
          /\ \A k \in 1..(n - 1) :
               Nth(Q, k + 1) - Nth(Q, k) = IF SepIn(Nth(P, k), Nth(P, k + 1)) THEN 2 ELSE 1
          /\ n > 0 => Nth(Q, 1) = IF SepIn(0, Nth(P, 1)) THEN 2 ELSE 1
          /\ Len(id) = IF n = 0 THEN 0 ELSE Nth(Q, n)
          /\ \A i \in 1..(Len(id) - 1) : ~(id[i] = "-" /\ id[i + 1] = "-")
          /\ id # <<>> => id[Len(id)] # "-"

\* An id made from a name and a URL that held a run of separators, a character of no
\* class and a trailing separator.
C22_Witness ==
  /\ last.op = "id"
  /\ ~last.again
  /\ last.name = <<"a", "/">>
  /\ last.url = <<"#", " ">>
  /\ last.result = <<"a">>

\* The minute of the day a setting names.
MinuteOfDay(cfg) ==
  CASE cfg = T0930 -> 570 [] cfg = T0000 -> 0 [] cfg = T2345 -> 1425

\* C23 (SummarySpec): with a setting HH:MM, the delay the SSL-summary task computes
\* is the time from now to the next moment whose time of day is HH:MM: it is at
\* least zero, less than a day, and now plus the delay is at HH:MM.  With 09:30,
\* at 08:00 the delay is 1h 30m and at 10:00 it is 23h 30m.
C23_DelayToNextOccurrence ==
  (last.op = "schedule" /\ last.config \in {T0930, T0000, T2345}) =>
     /\ last.duration >= 0
     /\ last.duration < 1440
     /\ (last.at + last.duration) % 1440 = MinuteOfDay(last.config)
     /\ (last.config = T0930 /\ last.at = 480) => last.duration = 90
     /\ (last.config = T0930 /\ last.at = 600) => last.duration = 1410

\* The task started at 10:00 with 09:30 set and computed a delay of 23h 30m.
C23_Witness ==
  /\ last.op = "schedule"
  /\ last.config = T0930
  /\ last.at = 600
  /\ last.fires = 0
  /\ last.duration = 1410

\* C24 (SummarySpec): the fire time the SSL-summary task computes after a firing is
\* later than the fire time of that firing.
C24_NextFireLater ==
  (last.op = "schedule" /\ last.fires > 0) => last.next > last.fired

\* C25 (ConflictSpec): no two stored endpoints share a name or a URL.
C25_NoSharedNameOrURL ==
  \A i, j \in Ids :
    (i # j /\ store[i] # NoRec /\ store[j] # NoRec) =>
       (NameOf[i] # NameOf[j] /\ URLOf[i] # URLOf[j])

\* C26 (PasskeySpec): with a passkey configured, an enable-health request that gives
\* another passkey is answered as unauthorized and changes neither the Store nor
\* the state table nor any state, and leaves no request under way.
C26_WrongPasskeyChangesNothing ==
  [][(/\ last'.op \in {"asked", "reply"}
      /\ last'.request = "enable-health"
      /\ last'.passkey # AdminPasskey)
       => /\ last'.op = "reply"
          /\ last'.error = "unauthorized"
          /\ UNCHANGED <<store, states, heap, admin>>]_vars

\* A request with a wrong passkey has been refused for a stored endpoint that is not
\* health-monitored, whose state exists and has been probed.
C26_Witness ==
  /\ last.op = "reply"
  /\ last.error = "unauthorized"
  /\ last.passkey = "guess"
  /\ store["e2"] # NoRec
  /\ ~store["e2"].MonitorHealth
  /\ states["e2"] # NoRef
  /\ ~heap[states["e2"]].MonitorHealth
  /\ heap[states["e2"]].NextCheck > 0

\* The fields of a state that UpdateEndpointSettings may write.
Settings == {"CheckInterval", "FailureThreshold", "SuccessThreshold"}

\* C27 (ReplySpec): the Monitor's step of an update request sets check interval and
\* both thresholds of the endpoint's state to the saved endpoint's and leaves every
\* other field of that state, every other state and the state table as they were.
C27_UpdateWritesSettingsOnly ==
  [][\A t \in Threads :
       (/\ admin[t].pc = "table"
        /\ admin[t].op = "update"
        /\ admin'[t].pc = "idle"
        /\ states[admin[t].id] # NoRef)
         => LET r == states[admin[t].id]
            IN /\ states' = states
               /\ \A q \in Refs \ {r} : heap'[q] = heap[q]
               /\ DOMAIN heap'[r] = DOMAIN heap[r]
               /\ \A fld \in DOMAIN heap[r] \ Settings : heap'[r][fld] = heap[r][fld]
               /\ \A fld \in Settings : heap'[r][fld] = admin[t].rec[fld]]_vars

\* An update request has put its thresholds, which no other request of ReplySpec
\* asks for, into a state that has counted a failure, is not due and has had a flag
\* changed.
C27_Witness ==
  /\ admin[1].pc = "idle"
  /\ states["e1"] # NoRef
  /\ heap[states["e1"]].FailureThreshold = 1
  /\ heap[states["e1"]].SuccessThreshold = 1
  /\ heap[states["e1"]].ConsecutiveFailures > 0
  /\ heap[states["e1"]].NextCheck > now
  /\ heap[states["e1"]].AlertsSuppressed

\* C28 (TimeSpec): a health-monitored state that is due, as enable-health leaves
\* it, stays due until the outcome of an HTTP probe is applied to it, so that the
\* next tick dispatches it.
C28_DueUntilHTTPOutcome ==
  [][\A r \in Refs :
       (/\ InTable(r)
        /\ heap[r].MonitorHealth
        /\ ~(now < heap[r].NextCheck)
        /\ states' = states
        /\ last'.op # "add")
         => \/ ~(now' < heap'[r].NextCheck)
            \/ (last'.op \in {"success", "failure"} /\ last'.ref = r)]_vars

\* C29 (StatusSpec): what a status request answers for an endpoint is what the
\* endpoint's state held when get_status returned, whatever is applied to the state
\* afterwards.
C29_StatusIsSnapshot ==
  last.op = "status" => last.reported = last.seen

\* C30 (ImportSpec): an import run after the first one, whatever admin changes were
\* made in between, leaves the Store as it found it: no record added, none changed.
C30_ImportAgainChangesNothing ==
  (last.op = "import" /\ last.runs > 1) => store = last.before

\* C31 (CertSpec): with a warning window of 0 in the config, a certificate is
\* flagged as expiring soon only if it has expired.
C31_ZeroWindowFlagsExpiredOnly ==
  (last.op = "cert" /\ last.configured = 0 /\ last.info.ExpiringSoon)
    => last.notAfter < last.at

\* C38 (CertSpec): days_to_expiry is (notAfter - now) / 24h rounded down, also for a
\* certificate that has expired, and expiring_soon holds exactly when
\* 0 <= days_to_expiry <= warning days.
C38_DaysRoundedDown ==
  last.op = "cert" =>
    /\ last.info.DaysToExpiry = (last.notAfter - last.at) \div 24
    /\ last.info.ExpiringSoon <=>
         (0 <= last.info.DaysToExpiry
            /\ last.info.DaysToExpiry <= LoadedWarningDays(last.configured))

\* The fields of a state that only a probe's outcome writes.
OutcomeFields ==
  {"Status", "ConsecutiveFailures", "ConsecutiveSuccesses", "LastError", "LastCheck",
   "LastSSLCheck", "SSLCertExpiry", "DaysToExpiry", "SSLExpiringSoon"}

\* C32 (Spec): a tick starts a probe task exactly for the states in the table that
\* are enabled and due when it reads them, and no step changes an outcome field of
\* a state that is disabled before and after it.
C32_DisabledUntouched ==
  [][/\ (phase = "run" /\ \E r \in Refs : probes[r] # "spawned" /\ probes'[r] = "spawned")
          => \A r \in Refs : probes'[r] = "spawned" <=> Due(r)
     /\ \A r \in Refs :
          (/\ InTable(r)
           /\ ~heap[r].Enabled
           /\ states' = states
           /\ ~heap'[r].Enabled)
            => \A fld \in OutcomeFields : heap'[r][fld] = heap[r][fld]]_vars

\* The probe tasks outstanding for an id: the states of that id, in the table or
\* replaced, that a task holds.
Outstanding(id) ==
  {r \in Refs : heap[r] # NoObj /\ heap[r].ID = id /\ probes[r] # "idle"}

\* C33 (TimeSpec): at most one probe task is outstanding for an id.
C33_OneProbePerId ==
  \A id \in Ids : Cardinality(Outstanding(id)) <= 1

\* A probe task holds the state of an id that has been added again since the task
\* started, and the state now in the table is due.
C33_Witness ==
  \E r \in Refs :
    /\ probes[r] # "idle"
    /\ states[heap[r].ID] \notin {r, NoRef}
    /\ Due(states[heap[r].ID])
    /\ phase = "run"

\* C34 (PairSpec): while a probe of one endpoint is in flight, a tick can dispatch
\* every other endpoint that is enabled and due.
C34_TickNotBlocked ==
  \A r1, r2 \in Refs :
    (/\ phase = "run"
     /\ r1 # r2
     /\ probes[r1] # "idle"
     /\ probes[r2] = "idle"
     /\ Due(r2))
      => ENABLED CheckDueEndpoints

\* C39: once every enable, disable, suppress and unsuppress request for an endpoint
\* has returned, the Enabled and AlertsSuppressed flags of its stored record equal
\* those of its state in the table.
C39_FlagsAgreeWhenQuiet ==
  ((\A t \in Threads : admin[t].pc = "idle")
      /\ store["e1"] # NoRec /\ states["e1"] # NoRef)
    => /\ heap[states["e1"]].Enabled = store["e1"].Enabled
       /\ heap[states["e1"]].AlertsSuppressed = store["e1"].AlertsSuppressed

\* The TLS fields of a state.
TLSFields(o) == <<o.SSLCertExpiry, o.DaysToExpiry, o.SSLExpiringSoon, o.LastSSLCheck>>

\* C36: a failure outcome leaves SSLCertExpiry, DaysToExpiry, SSLExpiringSoon and
\* LastSSLCheck as they were, and a success outcome leaves the status and the two
\* counters as the hysteresis rule alone sets them, whatever its TLS probe did.
C36_TLSAndHysteresisApart ==
  [][/\ last'.op = "failure" => TLSFields(last'.after) = TLSFields(heap[last'.ref])
     /\ last'.op = "success" =>
          LET o == heap[last'.ref]
              n == o.ConsecutiveSuccesses + 1
          IN /\ last'.after.ConsecutiveFailures = 0
             /\ last'.after.ConsecutiveSuccesses = n
             /\ last'.after.Status =
                  IF n >= o.SuccessThreshold THEN StatusHealthy ELSE o.Status]_vars

\* A failure is applied to a state whose TLS fields an earlier probe filled, and
\* they are still there.
C36_Witness ==
  /\ last.op = "failure"
  /\ last.after.LastSSLCheck # ZeroTime
  /\ last.after.SSLCertExpiry # ZeroTime

\* C37: the history records of the endpoint, in the order of their keys in the
\* Store, are one per outcome applied to its state, in the order of application,
\* each with the status the outcome left and the LastCheck it set.
C37_RecordsFollowOutcomes ==
  LET records == CursorOrder({q \in bucket : q.EndpointID = "e1"})
  IN /\ Len(records) = Len(trace)
     /\ \A i \in 1..Len(records) :
          /\ records[i].Status = trace[i].status
          /\ records[i].Timestamp = trace[i].at

\* An I/O call of the probe task on r is in progress: the HTTP request, the TLS
\* connection or the history write.
IOInProgress(r) == probes[r] \in {"http", "tls", "tls-only", "saving"}

\* C35: while an I/O call of an endpoint's probe task is in progress the lock of
\* its state is free.
C35_NoStateLockAcrossIO == \A r \in Refs : IOInProgress(r) => ~StateHeld(r)

\* Some goroutine is between the first and the last step of an operation.
AtWork ==
  \/ phase = "sweep"
  \/ life.tick = "scan"
  \/ \E r \in Refs : probes[r] # "idle"
  \/ \E t \in Threads : admin[t].pc # "idle"

\* C40: no deadlock: whenever a goroutine is at work, some goroutine at work can
\* take its next step.
C40_NoDeadlock == AtWork => ENABLED LockSteps

\* A flag request holds Monitor.mu and waits for the lock of a state that the probe
\* task holds while it waits for the Store's mu, which a cleanup pass holds.
C40_Witness ==
  \E t, u \in Threads, r \in Refs :
    /\ admin[t].pc = "state" /\ states[admin[t].id] = r
    /\ probes[r] = "save"
    /\ admin[u].pc = "cleanup"

====
